---- MODULE Spec2Model ----
(***************************************************************************)
(* Checkout, batch payment, retry and cash settlement of the school        *)
(* catering portal, with the create-payment edge function that turns a     *)
(* request into a Midtrans Snap transaction.                               *)
(*                                                                         *)
(* Numbers are JavaScript numbers on a grid of 1/Scale: the integer v      *)
(* stands for v / Scale, so that Math.round is a real rounding and not the *)
(* identity.  Ids are tuples <<kind, n, ...>>; NoId is a missing id.       *)
(* NoToken is a null snap_token.  A name is a sequence of character codes. *)
(* Every request to the store or to the gateway can fail, and what a       *)
(* handler finds in its environment (Deno.env, window.snap) is chosen when *)
(* it reads it.                                                            *)
(***************************************************************************)
EXTENDS Integers, Sequences, FiniteSets, TLC

\* ------------------------------------------------------------- bounds
Scale == 2
MaxOrders == 3
MaxCheckouts == 1
MaxBatchRows == 3
MaxPayments == 1
MaxItems == 2
MaxRaceOrders == 2
MaxQuantity == 2

\* ---------------------------------------------------------- constants
NameLimit == 45

NoId == <<>>
NoToken == 0
Dot == 46
Dash == 45
ItemWord == 0
PaymentWord == -1
BatchWord == -2
ChildCode == 7

Clients == {"c1", "c2"}
OneSession == {"c1"}

\* The cashiers at their tills; the sequential specifications have one.
Cashiers == {"k1", "k2"}
OneCashier == {"k1"}

Callers == Clients \cup {"ext"}
OrderIds == 1..MaxOrders
Numbers == 1..(4 * MaxOrders + MaxBatchRows + 4)

\* ------------------------------------------------------------ numbers
Whole(n) == n * Scale

\* Math.round: the nearest whole number, halves rounded up.
MathRound(v) == ((2 * v + Scale) \div (2 * Scale)) * Scale

\* a * b, exact whenever a or b is whole.
Times(a, b) == (a * b) \div Scale

RECURSIVE SeqSum(_)
SeqSum(s) == IF s = <<>> THEN 0 ELSE Head(s) + SeqSum(Tail(s))

SetToSeq(S) ==
  LET RECURSIVE Build(_)
      Build(T) == IF T = {} THEN <<>>
                  ELSE LET m == CHOOSE x \in T : \A y \in T : x <= y
                       IN <<m>> \o Build(T \ {m})
  IN Build(S)

SeqToSet(s) == {s[i] : i \in 1..Len(s)}

\* ---------------------------------------------------------- variables
VARIABLES
  orders,       \* table orders
  lineItems,    \* table order_line_items, by order
  batch_orders, \* table batch_orders, rows in insertion order
  payments,     \* table payments, rows in insertion order
  cash_payments, \* table cash_payments, rows in insertion order
  gtfPc,        \* create-payment: position of each caller's request
  gtfReq,       \* create-payment: the request body
  gtfEnv,       \* create-payment: what the request found in Deno.env
  gtfPayload,   \* create-payment: midtransPayload, once it was POSTed
  gtfResp,      \* create-payment: the response
  pc,           \* parent client: position in the running operation
  cur,          \* parent client: locals of the running operation
  localOrders,  \* parent client: useOrders' orders state
  cartItems,    \* parent client: Index.tsx' cartItems state
  cashier       \* cashier clients: state of the screen each has open

vars == <<orders, lineItems, batch_orders, payments, cash_payments,
          gtfPc, gtfReq, gtfEnv, gtfPayload, gtfResp,
          pc, cur, localOrders, cartItems, cashier>>

storeVars == <<orders, lineItems, batch_orders, payments, cash_payments>>
gtfVars == <<gtfPc, gtfReq, gtfEnv, gtfPayload, gtfResp>>
clientVars == <<pc, cur, localOrders, cartItems>>

\* ------------------------------------------------ create-payment (pure)
NoRow == [state |-> "none", total_amount |-> 0, status |-> "pending",
          payment_status |-> "pending", snap_token |-> NoToken,
          midtrans_order_id |-> NoId]

NoReq == [orderId |-> NoId, amount |-> 0, customerDetails |-> "absent",
          itemDetails |-> [present |-> FALSE, items |-> <<>>],
          batchOrderIds |-> [present |-> FALSE, ids |-> <<>>]]

NoResp == [status |-> 0, snap_token |-> NoToken, error |-> "none"]

ErrorResp(msg) == [status |-> 500, snap_token |-> NoToken, error |-> msg]

\* What a request has read of the environment: nothing yet, a value, or none.
NoEnv == [serverKey |-> "unread", store |-> "unread"]
EnvValue(present) == IF present THEN "set" ELSE "missing"

\* A name that is passed on at its full length.
TruncatedName_NoLimit(name, index) ==
  IF name # <<>> THEN name ELSE <<ItemWord, index>>

\* item.name && item.name.length > 45 ? substring(0, 45) + '...'
\*   : item.name || `Item ${index + 1}`
TruncatedName(name, index) ==
  IF Len(name) > NameLimit
    THEN SubSeq(name, 1, NameLimit) \o <<Dot, Dot, Dot>>
    ELSE IF name # <<>> THEN name ELSE <<ItemWord, index>>

\* One element of itemDetails.map: id, rounded price, defaulted quantity, name.
NormalizeItem(item, index) ==
  [id |-> IF item.id # NoId THEN item.id ELSE <<"item", index>>,
   price |-> MathRound(item.price),
   quantity |-> IF item.quantity # 0 THEN item.quantity ELSE Whole(1),
   name |-> TruncatedName(item.name, index)]

NormalizedItems(req) ==
  [i \in 1..Len(req.itemDetails.items) |->
     NormalizeItem(req.itemDetails.items[i], i)]

\* finalItemDetails.reduce((sum, item) => sum + item.price * item.quantity, 0)
CalculatedTotal(items) ==
  SeqSum([i \in 1..Len(items) |-> Times(items[i].price, items[i].quantity)])

\* batchOrderIds && batchOrderIds.length > 1 ? 'Batch Payment (n orders)' : 'Payment'
SummaryName(req) ==
  IF req.batchOrderIds.present /\ Len(req.batchOrderIds.ids) > 1
    THEN <<BatchWord, Len(req.batchOrderIds.ids)>>
    ELSE <<PaymentWord>>

SummaryItem(req) ==
  [id |-> req.orderId, price |-> MathRound(req.amount),
   quantity |-> Whole(1), name |-> SummaryName(req)]

\* if (calculatedTotal !== amount): the comparison is with amount as received.
TotalMismatch(req) == CalculatedTotal(NormalizedItems(req)) # req.amount

HasItems(req) == req.itemDetails.present /\ Len(req.itemDetails.items) > 0

FinalItemDetails(req) ==
  IF HasItems(req)
    THEN IF TotalMismatch(req) THEN <<SummaryItem(req)>>
         ELSE NormalizedItems(req)
    ELSE <<SummaryItem(req)>>

NoPayload ==
  [sent |-> FALSE, order_id |-> NoId, gross_amount |-> 0,
   customer_details |-> "none", item_details |-> <<>>]

MidtransPayload(req) ==
  [sent |-> TRUE, order_id |-> req.orderId,
   gross_amount |-> MathRound(req.amount),
   customer_details |->
     IF req.customerDetails = "absent" THEN "default" ELSE "merged",
   item_details |-> FinalItemDetails(req)]

\* The three checks that come before any side effect.
\* A validation that does not look at the server key.
ValidationError_NoKeyCheck(req, serverKey) ==
  IF req.orderId = NoId THEN "Order ID is required"
  ELSE IF req.amount <= 0 THEN "Valid amount is required"
  ELSE "none"

ValidationError(req, serverKey) ==
  IF req.orderId = NoId THEN "Order ID is required"
  ELSE IF req.amount <= 0 THEN "Valid amount is required"
  ELSE IF ~serverKey THEN "Midtrans server key not configured"
  ELSE "none"

HasBatch(req) == req.batchOrderIds.present /\ Len(req.batchOrderIds.ids) > 0

BatchMappings(req) ==
  [i \in 1..Len(req.batchOrderIds.ids) |->
     [batch_id |-> req.orderId, order_id |-> req.batchOrderIds.ids[i]]]

\* batch_orders.order_id REFERENCES orders(id): a row for no order is refused.
ForeignKeysHold(rows) ==
  \A i \in 1..Len(rows) :
    rows[i].order_id \in OrderIds /\ orders[rows[i].order_id].state = "live"

\* The gateway's token for a new transaction.  Tokens are only ever compared,
\* so the least number that nothing holds stands for a new one.
UsedTokens ==
  {orders[o].snap_token : o \in OrderIds}
    \cup {gtfResp[k].snap_token : k \in Callers}
    \cup {cur[c].token : c \in Clients}
    \cup {cur[c].widget : c \in Clients}
    \cup {g.snap_token : g \in UNION {localOrders[c] : c \in Clients}}
    \cup {g.snap_token : g \in UNION {cur[c].given : c \in Clients}}

FreshToken ==
  CHOOSE n \in Numbers \ UsedTokens : \A m \in Numbers \ UsedTokens : n <= m

\* What the gateway answers: a token, a 2xx body without one, or a failure.
GatewayOutcomes == {"token", "notoken", "error"}

GatewayResponse(outcome, token) ==
  IF outcome = "token"
    THEN [status |-> 200, snap_token |-> token, error |-> "none"]
  ELSE IF outcome = "notoken"
    THEN [status |-> 200, snap_token |-> NoToken, error |-> "none"]
  ELSE ErrorResp("Midtrans API call failed")

\* ----------------------------------------------- create-payment (steps)
\* Lines 28-55: destructure the body, validate orderId and amount, read the
\* server key.  Nothing is written and nothing is sent before these pass.
GtfValidate(k) ==
  /\ gtfPc[k] = "validate"
  /\ \E serverKey \in BOOLEAN :
       LET err == ValidationError(gtfReq[k], serverKey) IN
         /\ gtfEnv' = [gtfEnv EXCEPT ![k].serverKey =
              IF err \in {"Order ID is required", "Valid amount is required"}
                THEN "unread" ELSE EnvValue(serverKey)]
         /\ IF err # "none"
              THEN /\ gtfPc' = [gtfPc EXCEPT ![k] = "done"]
                   /\ gtfResp' = [gtfResp EXCEPT ![k] = ErrorResp(err)]
              ELSE /\ gtfPc' = [gtfPc EXCEPT ![k] =
                        IF HasBatch(gtfReq[k]) THEN "batch" ELSE "fetch"]
                   /\ UNCHANGED gtfResp
  /\ UNCHANGED <<storeVars, gtfReq, gtfPayload, clientVars, cashier>>

\* A handler that ends the request when the store is not configured.
GtfSaveBatchMapping_FailClosed(k) ==
  /\ gtfPc[k] = "batch"
  /\ \/ /\ gtfEnv' = [gtfEnv EXCEPT ![k].store = "set"]
        /\ ForeignKeysHold(BatchMappings(gtfReq[k]))
        /\ batch_orders' = batch_orders \o BatchMappings(gtfReq[k])
        /\ gtfPc' = [gtfPc EXCEPT ![k] = "fetch"]
        /\ UNCHANGED gtfResp
     \/ /\ \E store \in {"set", "missing"} :
             gtfEnv' = [gtfEnv EXCEPT ![k].store = store]
        /\ gtfPc' = [gtfPc EXCEPT ![k] = "done"]
        /\ gtfResp' = [gtfResp EXCEPT ![k] = ErrorResp("Database error")]
        /\ UNCHANGED batch_orders
  /\ UNCHANGED <<orders, lineItems, payments, cash_payments, gtfReq, gtfPayload,
                 clientVars, cashier>>

\* A handler that logs a failed insert of the batch rows and goes on.
GtfSaveBatchMapping_LogOnly(k) ==
  /\ gtfPc[k] = "batch"
  /\ gtfEnv' = [gtfEnv EXCEPT ![k].store = "set"]
  /\ \/ /\ ForeignKeysHold(BatchMappings(gtfReq[k]))
        /\ batch_orders' = batch_orders \o BatchMappings(gtfReq[k])
     \/ UNCHANGED batch_orders
  /\ gtfPc' = [gtfPc EXCEPT ![k] = "fetch"]
  /\ UNCHANGED <<orders, lineItems, payments, cash_payments, gtfReq, gtfPayload, gtfResp,
                 clientVars, cashier>>

\* Lines 57-96: with the store configured, one insert of all the batch rows,
\* whose error ends the request; a missing configuration is only logged.
GtfSaveBatchMapping(k) ==
  /\ gtfPc[k] = "batch"
  /\ \/ /\ gtfEnv' = [gtfEnv EXCEPT ![k].store = "set"]
        /\ \/ /\ ForeignKeysHold(BatchMappings(gtfReq[k]))
              /\ batch_orders' = batch_orders \o BatchMappings(gtfReq[k])
              /\ gtfPc' = [gtfPc EXCEPT ![k] = "fetch"]
              /\ UNCHANGED gtfResp
           \/ /\ gtfPc' = [gtfPc EXCEPT ![k] = "done"]
              /\ gtfResp' = [gtfResp EXCEPT ![k] = ErrorResp("Database error")]
              /\ UNCHANGED batch_orders
     \/ /\ gtfEnv' = [gtfEnv EXCEPT ![k].store = "missing"]
        /\ gtfPc' = [gtfPc EXCEPT ![k] = "fetch"]
        /\ UNCHANGED <<batch_orders, gtfResp>>
  /\ UNCHANGED <<orders, lineItems, payments, cash_payments, gtfReq, gtfPayload,
                 clientVars, cashier>>

\* Lines 98-213: build the payload, POST it, answer with the token or the error.
GtfCallGateway(k) ==
  /\ gtfPc[k] = "fetch"
  /\ gtfPayload' = [gtfPayload EXCEPT ![k] = MidtransPayload(gtfReq[k])]
  /\ \E outcome \in GatewayOutcomes :
       gtfResp' = [gtfResp EXCEPT ![k] = GatewayResponse(outcome, FreshToken)]
  /\ gtfPc' = [gtfPc EXCEPT ![k] = "done"]
  /\ UNCHANGED <<storeVars, gtfReq, gtfEnv, clientVars, cashier>>

GtfStep(k) == GtfValidate(k) \/ GtfSaveBatchMapping(k) \/ GtfCallGateway(k)

\* ------------------------------------------------------- parent client
\* The locals of one operation of a parent's browser session: given is the
\* order objects the operation was called with, writes counts the write
\* requests it sent to the store, calls its invocations of create-payment,
\* deleted tells that its compensating delete removed the order, snap is what
\* it found in window.snap, widget the token window.snap.pay was called with,
\* result the kind of toast it ended with, callback the last callback the
\* widget made.
NoCur ==
  [op |-> "none", order |-> 0, orderId |-> NoId, amount |-> 0, items |-> <<>>,
   given |-> {}, pending |-> <<>>, idx |-> 0, token |-> NoToken,
   updated |-> {}, deleted |-> FALSE, writes |-> 0, calls |-> 0,
   snap |-> "unread",
   widget |-> NoToken, result |-> "none", callback |-> "none"]

\* The cart of Index.tsx, as handed to handleCheckout: menu item, price, count.
CartLine(m, price, count) ==
  [menu_item_id |-> m, price |-> price, quantity |-> Whole(count), name |-> <<m>>]

Carts ==
  {<<>>,
   <<CartLine(1, Whole(3), 2), CartLine(2, Whole(4), 1)>>,
   <<CartLine(2, (3 * Scale) \div 2, 1)>>,
   <<CartLine(3, 0, 1)>>}

\* A total that adds the prices and leaves the quantities out.
CartTotal_Prices(cart) == SeqSum([i \in 1..Len(cart) |-> cart[i].price])

\* cartItems.reduce((sum, item) => sum + item.price * item.quantity, 0)
CartTotal(cart) ==
  SeqSum([i \in 1..Len(cart) |-> Times(cart[i].price, cart[i].quantity)])

\* calculate_order_total: the trigger's sum of total_price over the line items.
CalculateOrderTotal(lines) ==
  SeqSum([i \in 1..Len(lines) |-> Times(lines[i].unit_price, lines[i].quantity)])

\* Date.now() with a random suffix: an id that nothing holds yet.  Ids are
\* only ever compared, so the least unused number stands for a new one.
IdNumber(id) == IF id = NoId THEN {} ELSE {id[2]}

UsedIds ==
  UNION ({IdNumber(orders[o].midtrans_order_id) : o \in OrderIds}
    \cup {IdNumber(batch_orders[i].batch_id) : i \in 1..Len(batch_orders)}
    \cup {IdNumber(gtfReq[k].orderId) : k \in Callers}
    \cup {IdNumber(cur[c].orderId) : c \in Clients}
    \cup {IdNumber(g.midtrans_order_id) : g \in UNION {localOrders[c] : c \in Clients}}
    \cup {IdNumber(g.midtrans_order_id) : g \in UNION {cur[c].given : c \in Clients}})

FreshId(kind) ==
  <<kind, CHOOSE n \in Numbers \ UsedIds : \A m \in Numbers \ UsedIds : n <= m>>

LiveOrders == {o \in OrderIds : orders[o].state = "live"}
FreeOrders == {o \in OrderIds : orders[o].state = "none"}

\* An order object as fetchOrders builds it from an orders row and its lines.
Snapshot(o) ==
  [id |-> o, total_amount |-> orders[o].total_amount,
   payment_status |-> orders[o].payment_status,
   snap_token |-> orders[o].snap_token,
   midtrans_order_id |-> orders[o].midtrans_order_id,
   order_line_items |-> lineItems[o]]

\* update(...).eq('id', o): a row that is gone is not an error, nothing changes.
UpdateOrder(o, field, value) ==
  IF orders[o].state = "live"
    THEN [orders EXCEPT ![o] = [@ EXCEPT ![field] = value]]
    ELSE orders

\* supabase.functions.invoke('create-payment', {body}).
PostRequest(c, orderId, amount, items, batchIds) ==
  /\ gtfPc' = [gtfPc EXCEPT ![c] = "validate"]
  /\ gtfReq' = [gtfReq EXCEPT ![c] =
       [orderId |-> orderId, amount |-> amount, customerDetails |-> "given",
        itemDetails |-> [present |-> TRUE, items |-> items],
        batchOrderIds |-> batchIds]]
  /\ UNCHANGED <<gtfEnv, gtfPayload, gtfResp>>

\* The response is consumed: the handler instance is gone.
TakeResponse(c) ==
  /\ gtfPc' = [gtfPc EXCEPT ![c] = "idle"]
  /\ gtfReq' = [gtfReq EXCEPT ![c] = NoReq]
  /\ gtfEnv' = [gtfEnv EXCEPT ![c] = NoEnv]
  /\ gtfPayload' = [gtfPayload EXCEPT ![c] = NoPayload]
  /\ gtfResp' = [gtfResp EXCEPT ![c] = NoResp]

\* The operation has run to its end: what it did stays in its locals until
\* the call returns.
Finish(c, record) ==
  /\ pc' = [pc EXCEPT ![c] = "done"]
  /\ cur' = [cur EXCEPT ![c] = record]

\* The catch block, or an early return with a destructive toast.
Failed(record) == [record EXCEPT !.result = "error"]

\* The async call returns (its finally block ran): the session is idle again.
Return(c) ==
  /\ pc[c] = "done"
  /\ pc' = [pc EXCEPT ![c] = "idle"]
  /\ cur' = [cur EXCEPT ![c] = NoCur]
  /\ UNCHANGED <<storeVars, gtfVars, localOrders, cartItems, cashier>>

\* if (window.snap) window.snap.pay(token, ...) else the error branch.
OpenWidget(record, token, loaded) ==
  IF loaded
    THEN [record EXCEPT !.snap = "loaded", !.widget = token, !.result = "ok"]
    ELSE [record EXCEPT !.snap = "missing", !.result = "error"]

\* The callbacks handed to window.snap.pay.
WidgetCallbacks == {"onSuccess", "onPending", "onError", "onClose"}

\* A callback that trusts the widget: onSuccess marks the order paid.
WidgetCallback_MarkPaid(c, callback) ==
  /\ pc[c] = "done"
  /\ cur[c].widget # NoToken
  /\ cur' = [cur EXCEPT ![c] = [@ EXCEPT !.callback = callback]]
  /\ orders' =
       IF callback = "onSuccess"
         THEN [o \in OrderIds |->
                 IF orders[o].state = "live"
                    /\ orders[o].snap_token = cur[c].widget
                   THEN [orders[o] EXCEPT !.payment_status = "paid"]
                   ELSE orders[o]]
         ELSE orders
  /\ UNCHANGED <<lineItems, batch_orders, payments, cash_payments, gtfVars,
                 pc, localOrders, cartItems, cashier>>

\* The widget that was opened calls back.  Every callback shows a toast or
\* writes a log line; onSuccess and onPending of retryPayment also call
\* fetchOrders (a failed select leaves the list as it is), those of
\* handleCheckout and processBatchPayment call the caller's onSuccess, which
\* empties and closes the cart.
WidgetCallback(c, callback) ==
  /\ pc[c] = "done"
  /\ cur[c].widget # NoToken
  /\ cur' = [cur EXCEPT ![c] = [@ EXCEPT !.callback = callback]]
  /\ IF cur[c].op = "retry" /\ callback \in {"onSuccess", "onPending"}
       THEN \/ localOrders' = [localOrders EXCEPT ![c] =
                                 {Snapshot(o) : o \in LiveOrders}]
            \/ UNCHANGED localOrders
       ELSE UNCHANGED localOrders
  /\ UNCHANGED <<storeVars, gtfVars, pc, cartItems, cashier>>

\* useOrders.fetchOrders: the session's order list is replaced by the rows of
\* the store (a failed select leaves it as it is).
FetchOrders(c) ==
  /\ pc[c] = "idle"
  /\ localOrders' = [localOrders EXCEPT ![c] = {Snapshot(o) : o \in LiveOrders}]
  /\ localOrders' # localOrders
  /\ UNCHANGED <<storeVars, gtfVars, pc, cur, cartItems, cashier>>

\* ---------------------------------------------------------- handleCheckout
\* A checkout that looks at the user only, not at the cart or the child.
CheckoutStart_UserOnly(c, user, cart, child) ==
  /\ pc[c] = "idle"
  /\ Cardinality(OrderIds \ FreeOrders) < MaxCheckouts
  /\ IF ~user
       THEN Finish(c, Failed([NoCur EXCEPT !.op = "checkout", !.items = cart]))
       ELSE /\ pc' = [pc EXCEPT ![c] = "co_insert_order"]
            /\ cur' = [cur EXCEPT ![c] =
                 [NoCur EXCEPT !.op = "checkout", !.items = cart,
                               !.amount = CartTotal(cart)]]
  /\ UNCHANGED <<storeVars, gtfVars, localOrders, cartItems, cashier>>

\* Lines 72-131: no user, an empty cart or no child end the call before any
\* request; otherwise the total is computed and the order insert is next.
CheckoutStart(c, user, cart, child) ==
  /\ pc[c] = "idle"
  /\ Cardinality(OrderIds \ FreeOrders) < MaxCheckouts
  /\ IF ~user \/ cart = <<>> \/ ~child
       THEN Finish(c, Failed([NoCur EXCEPT !.op = "checkout", !.items = cart]))
       ELSE /\ pc' = [pc EXCEPT ![c] = "co_insert_order"]
            /\ cur' = [cur EXCEPT ![c] =
                 [NoCur EXCEPT !.op = "checkout", !.items = cart,
                               !.amount = CartTotal(cart)]]
  /\ UNCHANGED <<storeVars, gtfVars, localOrders, cartItems, cashier>>

\* Lines 133-152: insert the orders row, pending/pending; an error ends the call.
CheckoutInsertOrder(c) ==
  /\ pc[c] = "co_insert_order"
  /\ \/ \E o \in FreeOrders :
          /\ \A p \in FreeOrders : o <= p
          /\ orders' = [orders EXCEPT ![o] =
               [NoRow EXCEPT !.state = "live", !.total_amount = cur[c].amount]]
          /\ pc' = [pc EXCEPT ![c] = "co_insert_lines"]
          /\ cur' = [cur EXCEPT ![c] =
               [@ EXCEPT !.order = o, !.writes = @ + 1]]
     \/ /\ Finish(c, Failed([cur[c] EXCEPT !.writes = @ + 1]))
        /\ UNCHANGED orders
  /\ UNCHANGED <<lineItems, batch_orders, payments, cash_payments, gtfVars, localOrders, cartItems, cashier>>

\* orderLineItems: one row per cart line, total_price left to the database.
OrderLineItems(o, cart) ==
  [i \in 1..Len(cart) |->
     [id |-> <<"line", o, i>>, menu_item_id |-> cart[i].menu_item_id,
      quantity |-> cart[i].quantity, unit_price |-> cart[i].price,
      name |-> cart[i].name]]

\* A checkout that only logs a failed insert of the line items and goes on.
CheckoutInsertLineItems_NoRollback(c) ==
  /\ pc[c] = "co_insert_lines"
  /\ cur' = [cur EXCEPT ![c] = [@ EXCEPT !.writes = @ + 1]]
  /\ \/ /\ lineItems' = [lineItems EXCEPT ![cur[c].order] =
             OrderLineItems(cur[c].order, cur[c].items)]
        /\ orders' = UpdateOrder(cur[c].order, "total_amount",
             CalculateOrderTotal(OrderLineItems(cur[c].order, cur[c].items)))
     \/ UNCHANGED <<orders, lineItems>>
  /\ pc' = [pc EXCEPT ![c] = "co_set_id"]
  /\ UNCHANGED <<batch_orders, payments, cash_payments, gtfVars, localOrders, cartItems, cashier>>

\* Lines 156-191: insert the line items (the trigger recomputes the order's
\* total); on an error the order is to be deleted next.
CheckoutInsertLineItems(c) ==
  /\ pc[c] = "co_insert_lines"
  /\ cur' = [cur EXCEPT ![c] = [@ EXCEPT !.writes = @ + 1]]
  /\ \/ /\ orders[cur[c].order].state = "live"
        /\ lineItems' = [lineItems EXCEPT ![cur[c].order] =
             OrderLineItems(cur[c].order, cur[c].items)]
        /\ orders' = UpdateOrder(cur[c].order, "total_amount",
             CalculateOrderTotal(OrderLineItems(cur[c].order, cur[c].items)))
        /\ pc' = [pc EXCEPT ![c] = "co_set_id"]
     \/ /\ pc' = [pc EXCEPT ![c] = "co_rollback"]
        /\ UNCHANGED <<orders, lineItems>>
  /\ UNCHANGED <<batch_orders, payments, cash_payments, gtfVars, localOrders, cartItems, cashier>>

\* Lines 184-190: delete the order just created; the result of the delete is
\* not read, and the call ends with the error either way.
CheckoutRollback(c) ==
  /\ pc[c] = "co_rollback"
  /\ \/ /\ orders' = [orders EXCEPT ![cur[c].order] = [NoRow EXCEPT !.state = "deleted"]]
        /\ Finish(c, Failed([cur[c] EXCEPT !.writes = @ + 1, !.deleted = TRUE]))
     \/ /\ UNCHANGED orders
        /\ Finish(c, Failed([cur[c] EXCEPT !.writes = @ + 1]))
  /\ UNCHANGED <<lineItems, batch_orders, payments, cash_payments, gtfVars, localOrders, cartItems, cashier>>

\* The cart as itemDetails: menu item id, price, quantity, name with the child.
CheckoutItemDetails(cart) ==
  [i \in 1..Len(cart) |->
     [id |-> <<"menu", cart[i].menu_item_id>>, price |-> cart[i].price,
      quantity |-> cart[i].quantity,
      name |-> cart[i].name \o <<Dash, ChildCode>>]]

\* Lines 195-242: a new Midtrans order id is written to the order (an error is
\* only logged), then create-payment is invoked with the cart as itemDetails.
CheckoutSetMidtransId(c) ==
  /\ pc[c] = "co_set_id"
  /\ \/ orders' = UpdateOrder(cur[c].order, "midtrans_order_id", FreshId("ORDER"))
     \/ UNCHANGED orders
  /\ cur' = [cur EXCEPT ![c] =
       [@ EXCEPT !.orderId = FreshId("ORDER"), !.writes = @ + 1, !.calls = @ + 1]]
  /\ pc' = [pc EXCEPT ![c] = "co_wait"]
  /\ PostRequest(c, FreshId("ORDER"), cur[c].amount,
                 CheckoutItemDetails(cur[c].items), [present |-> FALSE, ids |-> <<>>])
  /\ UNCHANGED <<lineItems, batch_orders, payments, cash_payments, localOrders, cartItems, cashier>>

\* A checkout that deletes its order when no token comes back.
CheckoutOnResponse_DeleteOrder(c) ==
  /\ pc[c] = "co_wait"
  /\ gtfPc[c] = "done"
  /\ TakeResponse(c)
  /\ IF gtfResp[c].status # 200 \/ gtfResp[c].snap_token = NoToken
       THEN /\ Finish(c, Failed([cur[c] EXCEPT !.writes = @ + 1]))
            /\ orders' = [orders EXCEPT ![cur[c].order] =
                 [NoRow EXCEPT !.state = "deleted"]]
       ELSE /\ pc' = [pc EXCEPT ![c] = "co_save_token"]
            /\ cur' = [cur EXCEPT ![c] = [@ EXCEPT !.token = gtfResp[c].snap_token]]
            /\ UNCHANGED orders
  /\ UNCHANGED <<lineItems, batch_orders, payments, cash_payments, localOrders, cartItems, cashier>>

\* Lines 244-302: an error response is reported and the call returns; a body
\* without a token throws; a token is saved on the order next.
CheckoutOnResponse(c) ==
  /\ pc[c] = "co_wait"
  /\ gtfPc[c] = "done"
  /\ TakeResponse(c)
  /\ IF gtfResp[c].status # 200 \/ gtfResp[c].snap_token = NoToken
       THEN Finish(c, Failed(cur[c]))
       ELSE /\ pc' = [pc EXCEPT ![c] = "co_save_token"]
            /\ cur' = [cur EXCEPT ![c] = [@ EXCEPT !.token = gtfResp[c].snap_token]]
  /\ UNCHANGED <<storeVars, localOrders, cartItems, cashier>>

\* Lines 254-299: save the token (the result is not read), then open the
\* widget if it is loaded.
CheckoutSaveToken(c) ==
  /\ pc[c] = "co_save_token"
  /\ \/ orders' = UpdateOrder(cur[c].order, "snap_token", cur[c].token)
     \/ UNCHANGED orders
  /\ \E loaded \in BOOLEAN :
       Finish(c, OpenWidget([cur[c] EXCEPT !.writes = @ + 1], cur[c].token, loaded))
  /\ UNCHANGED <<lineItems, batch_orders, payments, cash_payments, gtfVars, localOrders, cartItems, cashier>>

HandleCheckout(c) ==
  \/ \E user \in BOOLEAN, cart \in Carts, child \in BOOLEAN :
       CheckoutStart(c, user, cart, child)
  \/ CheckoutInsertOrder(c)
  \/ CheckoutInsertLineItems(c)
  \/ CheckoutRollback(c)
  \/ CheckoutSetMidtransId(c)
  \/ CheckoutOnResponse(c)
  \/ CheckoutSaveToken(c)

\* ------------------------------------------------------------ retryPayment
\* The order's line items as itemDetails.
RetryItemDetails(order) ==
  [i \in 1..Len(order.order_line_items) |->
     [id |-> order.order_line_items[i].id,
      price |-> order.order_line_items[i].unit_price,
      quantity |-> order.order_line_items[i].quantity,
      name |-> order.order_line_items[i].name]]

\* Lines 131-161: create-payment is invoked for the order's total.
RetryInvoke(c, record, order, orderId) ==
  /\ pc' = [pc EXCEPT ![c] = "rt_wait"]
  /\ cur' = [cur EXCEPT ![c] =
       [record EXCEPT !.orderId = orderId, !.calls = @ + 1]]
  /\ PostRequest(c, orderId, order.total_amount, RetryItemDetails(order),
                 [present |-> FALSE, ids |-> <<>>])

\* A retry that asks for a new transaction whether or not a token is cached.
RetryStart_IgnoreToken(c, order) ==
  /\ pc[c] = "idle"
  /\ order.payment_status = "pending"
  /\ LET record == [NoCur EXCEPT !.op = "retry", !.order = order.id,
                                 !.given = {order},
                                 !.amount = order.total_amount] IN
       IF order.midtrans_order_id # NoId
         THEN RetryInvoke(c, record, order, order.midtrans_order_id)
         ELSE /\ pc' = [pc EXCEPT ![c] = "rt_set_id"]
              /\ cur' = [cur EXCEPT ![c] = record]
              /\ UNCHANGED gtfVars
  /\ UNCHANGED <<storeVars, localOrders, cartItems, cashier>>

\* Lines 73-129.  OrderCard shows the button for a pending order only.  With a
\* cached token the widget is opened with it and the call returns; without
\* one the order's Midtrans id is used, or a new one is to be written first.
RetryStart(c, order) ==
  /\ pc[c] = "idle"
  /\ order.payment_status = "pending"
  /\ LET record == [NoCur EXCEPT !.op = "retry", !.order = order.id,
                                 !.given = {order},
                                 !.amount = order.total_amount] IN
       IF order.snap_token # NoToken
         THEN /\ \E loaded \in BOOLEAN :
                   Finish(c, OpenWidget(record, order.snap_token, loaded))
              /\ UNCHANGED gtfVars
         ELSE IF order.midtrans_order_id # NoId
           THEN RetryInvoke(c, record, order, order.midtrans_order_id)
           ELSE /\ pc' = [pc EXCEPT ![c] = "rt_set_id"]
                /\ cur' = [cur EXCEPT ![c] = record]
                /\ UNCHANGED gtfVars
  /\ UNCHANGED <<storeVars, localOrders, cartItems, cashier>>

\* A retry that invokes create-payment with a new id it has not written.
RetrySetMidtransId_NoPersist(c) ==
  /\ pc[c] = "rt_set_id"
  /\ LET order == CHOOSE g \in cur[c].given : TRUE IN
       RetryInvoke(c, cur[c], order, FreshId("ORDER"))
  /\ UNCHANGED <<storeVars, localOrders, cartItems, cashier>>

\* Lines 115-161: write a new Midtrans id to the order; an error ends the
\* call, otherwise create-payment is invoked with the order's line items.
RetrySetMidtransId(c) ==
  /\ pc[c] = "rt_set_id"
  /\ LET order == CHOOSE g \in cur[c].given : TRUE
         record == [cur[c] EXCEPT !.writes = @ + 1] IN
       \/ /\ orders' = UpdateOrder(order.id, "midtrans_order_id", FreshId("ORDER"))
          /\ RetryInvoke(c, record, order, FreshId("ORDER"))
       \/ /\ Finish(c, Failed(record))
          /\ UNCHANGED <<orders, gtfVars>>
  /\ UNCHANGED <<lineItems, batch_orders, payments, cash_payments, localOrders, cartItems, cashier>>

\* Lines 163-211: an error response or a body without a token throws; a token
\* is saved on the order next.
RetryOnResponse(c) ==
  /\ pc[c] = "rt_wait"
  /\ gtfPc[c] = "done"
  /\ TakeResponse(c)
  /\ IF gtfResp[c].status # 200 \/ gtfResp[c].snap_token = NoToken
       THEN Finish(c, Failed(cur[c]))
       ELSE /\ pc' = [pc EXCEPT ![c] = "rt_save_token"]
            /\ cur' = [cur EXCEPT ![c] = [@ EXCEPT !.token = gtfResp[c].snap_token]]
  /\ UNCHANGED <<storeVars, localOrders, cartItems, cashier>>

\* Lines 168-208: save the token (an error is only logged), then open the
\* widget if it is loaded.
RetrySaveToken(c) ==
  /\ pc[c] = "rt_save_token"
  /\ \/ orders' = UpdateOrder(cur[c].order, "snap_token", cur[c].token)
     \/ UNCHANGED orders
  /\ \E loaded \in BOOLEAN :
       Finish(c, OpenWidget([cur[c] EXCEPT !.writes = @ + 1], cur[c].token, loaded))
  /\ UNCHANGED <<lineItems, batch_orders, payments, cash_payments, gtfVars, localOrders, cartItems, cashier>>

RetryPayment(c) ==
  \/ \E order \in localOrders[c] : RetryStart(c, order)
  \/ RetrySetMidtransId(c)
  \/ RetryOnResponse(c)
  \/ RetrySaveToken(c)

\* ----------------------------------------------------- processBatchPayment
\* A batch over every order it is given, whatever its payment_status.
PendingOrders_All(given) == SetToSeq({g.id : g \in given})

\* orders.filter(order => order.payment_status === 'pending'), in id order.
PendingOrders(given) ==
  SetToSeq({g.id : g \in {h \in given : h.payment_status = "pending"}})

GivenOrder(given, id) == CHOOSE g \in given : g.id = id

\* A batch that charges the first order's total only.
BatchTotal_First(given, pending) ==
  IF pending = <<>> THEN 0 ELSE GivenOrder(given, pending[1]).total_amount

\* pendingOrders.reduce((sum, order) => sum + order.total_amount, 0)
BatchTotal(given, pending) ==
  SeqSum([i \in 1..Len(pending) |-> GivenOrder(given, pending[i]).total_amount])

\* The line items of all the pending orders, ids and names made unique.
RECURSIVE BatchItemDetails(_, _)
BatchItemDetails(given, pending) ==
  IF pending = <<>> THEN <<>>
  ELSE LET order == GivenOrder(given, Head(pending))
           lines == order.order_line_items
       IN [i \in 1..Len(lines) |->
             [id |-> <<"batch">> \o lines[i].id,
              price |-> lines[i].unit_price,
              quantity |-> lines[i].quantity,
              name |-> lines[i].name \o <<Dash, ChildCode>>]]
          \o BatchItemDetails(given, Tail(pending))

\* Lines 11-77: no order given is an error, no pending order among them is
\* reported and nothing is done; otherwise one request is sent for the batch.
ProcessBatchStart(c, given) ==
  /\ pc[c] = "idle"
  /\ Len(batch_orders) + Cardinality(given) <= MaxBatchRows
  /\ LET pending == PendingOrders(given)
         record == [NoCur EXCEPT !.op = "batch", !.given = given,
                                 !.pending = pending] IN
       IF given = {}
         THEN /\ Finish(c, Failed(record))
              /\ UNCHANGED gtfVars
       ELSE IF pending = <<>>
         THEN /\ Finish(c, [record EXCEPT !.result = "info"])
              /\ UNCHANGED gtfVars
       ELSE /\ pc' = [pc EXCEPT ![c] = "bp_wait"]
            /\ cur' = [cur EXCEPT ![c] =
                 [record EXCEPT !.orderId = FreshId("BATCH"),
                                !.amount = BatchTotal(given, pending),
                                !.items = BatchItemDetails(given, pending),
                                !.calls = @ + 1]]
            /\ PostRequest(c, FreshId("BATCH"), BatchTotal(given, pending),
                           BatchItemDetails(given, pending),
                           [present |-> TRUE, ids |-> pending])
  /\ UNCHANGED <<storeVars, localOrders, cartItems, cashier>>

\* Lines 79-94: an error response or a body without a token throws; with a
\* token the orders are updated one after the other.
ProcessBatchOnResponse(c) ==
  /\ pc[c] = "bp_wait"
  /\ gtfPc[c] = "done"
  /\ TakeResponse(c)
  /\ IF gtfResp[c].status # 200 \/ gtfResp[c].snap_token = NoToken
       THEN Finish(c, Failed(cur[c]))
       ELSE /\ pc' = [pc EXCEPT ![c] = "bp_update"]
            /\ cur' = [cur EXCEPT ![c] =
                 [@ EXCEPT !.token = gtfResp[c].snap_token, !.idx = 1]]
  /\ UNCHANGED <<storeVars, localOrders, cartItems, cashier>>

\* An update that writes the batch id and leaves the order's token.
StampOrder_IdOnly(o, token, batchId) ==
  UpdateOrder(o, "midtrans_order_id", batchId)

\* An update that writes the token and leaves the order's Midtrans id.
StampOrder_TokenOnly(o, token, batchId) == UpdateOrder(o, "snap_token", token)

\* update({snap_token, midtrans_order_id}).eq('id', order.id)
StampOrder(o, token, batchId) ==
  IF orders[o].state = "live"
    THEN [orders EXCEPT ![o] = [@ EXCEPT !.snap_token = token,
                                         !.midtrans_order_id = batchId]]
    ELSE orders

\* A loop that a failed update ends.
ProcessBatchUpdate_StopOnError(c) ==
  /\ pc[c] = "bp_update"
  /\ cur[c].idx <= Len(cur[c].pending)
  /\ LET o == cur[c].pending[cur[c].idx] IN
       \/ /\ orders' = StampOrder(o, cur[c].token, cur[c].orderId)
          /\ cur' = [cur EXCEPT ![c] =
               [@ EXCEPT !.idx = @ + 1, !.writes = @ + 1,
                         !.updated = @ \cup {o}]]
       \/ /\ UNCHANGED orders
          /\ cur' = [cur EXCEPT ![c] =
               [@ EXCEPT !.idx = Len(cur[c].pending) + 1, !.writes = @ + 1]]
  /\ UNCHANGED <<lineItems, batch_orders, payments, cash_payments, gtfVars, pc, localOrders, cartItems, cashier>>

\* Lines 96-108, one turn of the loop: the token and the batch id are written
\* to the next order; an error is logged and the loop goes on.
ProcessBatchUpdate(c) ==
  /\ pc[c] = "bp_update"
  /\ cur[c].idx <= Len(cur[c].pending)
  /\ LET o == cur[c].pending[cur[c].idx] IN
       \/ /\ orders' = StampOrder(o, cur[c].token, cur[c].orderId)
          /\ cur' = [cur EXCEPT ![c] =
               [@ EXCEPT !.idx = @ + 1, !.writes = @ + 1,
                         !.updated = @ \cup {o}]]
       \/ /\ UNCHANGED orders
          /\ cur' = [cur EXCEPT ![c] =
               [@ EXCEPT !.idx = @ + 1, !.writes = @ + 1]]
  /\ UNCHANGED <<lineItems, batch_orders, payments, cash_payments, gtfVars, pc, localOrders, cartItems, cashier>>

\* Lines 110-142: after the loop the widget is opened if it is loaded.
ProcessBatchOpenWidget(c) ==
  /\ pc[c] = "bp_update"
  /\ cur[c].idx > Len(cur[c].pending)
  /\ \E loaded \in BOOLEAN :
       Finish(c, OpenWidget(cur[c], cur[c].token, loaded))
  /\ UNCHANGED <<storeVars, gtfVars, localOrders, cartItems, cashier>>

ProcessBatchPayment(c) ==
  \/ \E given \in SUBSET localOrders[c] : ProcessBatchStart(c, given)
  \/ ProcessBatchOnResponse(c)
  \/ ProcessBatchUpdate(c)
  \/ ProcessBatchOpenWidget(c)

\* ------------------------------------------------------ cashier screens
NoCashier == [screen |-> "none", pc |-> "idle", selected |-> 0,
              total_amount |-> 0, toast |-> "none"]

\* The amount field holds a text: nothing, or the digits of a number.
NoText == <<>>

\* parseFloat: the number, or NaN for the empty text.
ParseFloat(text) ==
  IF text = NoText THEN [nan |-> TRUE, value |-> 0]
  ELSE [nan |-> FALSE, value |-> text[1]]

\* a >= n on floats: false when a is NaN.
Geq(a, n) == ~a.nan /\ a.value >= n

\* Number(e.target.value) || 0
NumberOrZero(text) == IF text = NoText THEN 0 ELSE text[1]

\* The order is set to paid and confirmed by its id; a row that is gone is
\* matched by no update.
SettleOrder(o) ==
  [orders EXCEPT ![o] =
     IF @.state = "live"
       THEN [@ EXCEPT !.payment_status = "paid", !.status = "confirmed"]
       ELSE @]

\* The update of processPayment writes payment_status only.
MarkPaid(o) ==
  [orders EXCEPT ![o] =
     IF @.state = "live" THEN [@ EXCEPT !.payment_status = "paid"] ELSE @]

\* The amounts the cashier can type: too little, exact, with change.
ReceivedAmounts(k) == {0, cashier[k].total_amount, cashier[k].total_amount + Whole(1)}

\* What the amount field can hold when the button is pressed.
ReceivedTexts(k) == {NoText} \cup {<<r>> : r \in ReceivedAmounts(k)}

\* ----------------------------------------- CashPaymentV2 (student search)
\* fetchOrdersForStudent and handleOrderSelect: one of the student's pending
\* orders, as read from the store, becomes selectedOrder.
CashierSelectOrder(k, o) ==
  /\ cashier[k].pc = "idle"
  /\ orders[o].state = "live" /\ orders[o].payment_status = "pending"
  /\ cashier' = [cashier EXCEPT ![k] = [NoCashier EXCEPT !.screen = "CashPaymentV2",
                                  !.selected = o,
                                  !.total_amount = orders[o].total_amount]]
  /\ cashier' # cashier
  /\ UNCHANGED <<storeVars, gtfVars, clientVars>>

\* isValidPayment: parseFloat(receivedAmount) >= selectedOrder.total_amount
IsValidPayment(k, received) ==
  cashier[k].selected # 0 /\ Geq(received, cashier[k].total_amount)

\* A handlePayment that takes any amount.
HandlePaymentUpdateOrder_AnyAmount(k, text) ==
  /\ cashier[k].screen = "CashPaymentV2"
  /\ cashier[k].pc = "idle"
  /\ cashier[k].selected # 0
  /\ cashier[k].toast = "none"
  /\ Len(payments) < MaxPayments
  /\ \/ /\ orders' = SettleOrder(cashier[k].selected)
        /\ cashier' = [cashier EXCEPT ![k].pc = "cp_insert"]
     \/ /\ cashier' = [cashier EXCEPT ![k].toast = "error"]
        /\ UNCHANGED orders
  /\ UNCHANGED <<lineItems, batch_orders, payments, cash_payments, gtfVars,
                 clientVars>>

\* handlePayment, lines 146-171: an invalid amount is refused; otherwise the
\* order is set to paid/confirmed, and an error of that update ends the call.
HandlePaymentUpdateOrder(k, text) ==
  /\ cashier[k].screen = "CashPaymentV2"
  /\ cashier[k].pc = "idle"
  /\ cashier[k].selected # 0
  /\ cashier[k].toast = "none"
  /\ Len(payments) < MaxPayments
  /\ IF ~IsValidPayment(k, ParseFloat(text))
       THEN /\ cashier' = [cashier EXCEPT ![k].toast = "invalid"]
            /\ UNCHANGED orders
       ELSE \/ /\ orders' = SettleOrder(cashier[k].selected)
               /\ cashier' = [cashier EXCEPT ![k].pc = "cp_insert"]
            \/ /\ cashier' = [cashier EXCEPT ![k].toast = "error"]
               /\ UNCHANGED orders
  /\ UNCHANGED <<lineItems, batch_orders, payments, cash_payments, gtfVars,
                 clientVars>>

\* handlePayment, lines 173-198: the payments row is inserted, method cash.
HandlePaymentInsert(k) ==
  /\ cashier[k].pc = "cp_insert"
  /\ \/ /\ orders[cashier[k].selected].state = "live"
        /\ payments' = Append(payments,
             [order_id |-> cashier[k].selected, amount |-> cashier[k].total_amount,
              payment_method |-> "cash", status |-> "success"])
        /\ cashier' = [cashier EXCEPT ![k].pc = "idle", ![k].toast = "ok"]
     \/ /\ cashier' = [cashier EXCEPT ![k].pc = "idle", ![k].toast = "error"]
        /\ UNCHANGED payments
  /\ UNCHANGED <<orders, lineItems, batch_orders, cash_payments, gtfVars,
                 clientVars>>

CashPaymentV2(k) ==
  \/ \E o \in OrderIds : CashierSelectOrder(k, o)
  \/ \E text \in ReceivedTexts(k) : HandlePaymentUpdateOrder(k, text)
  \/ HandlePaymentInsert(k)

\* ------------------------------------- CashPayment (cashier dashboard card)
\* CashierDashboard shows the payment card of an order that is pending
\* (canPay) in the list it read from the store.
CashPaymentOpen(k, o) ==
  /\ cashier[k].pc = "idle"
  /\ orders[o].state = "live" /\ orders[o].payment_status = "pending"
  /\ cashier' = [cashier EXCEPT ![k] = [NoCashier EXCEPT !.screen = "CashPayment",
                                  !.selected = o,
                                  !.total_amount = orders[o].total_amount]]
  /\ cashier' # cashier
  /\ UNCHANGED <<storeVars, gtfVars, clientVars>>

\* handlePayment, lines 40-66: isValidPayment is
\* parseFloat(receivedAmount) >= order.total_amount; then the order update.
CashPaymentUpdateOrder(k, text) ==
  /\ cashier[k].screen = "CashPayment"
  /\ cashier[k].pc = "idle"
  /\ cashier[k].toast = "none"
  /\ Len(payments) < MaxPayments
  /\ IF ~Geq(ParseFloat(text), cashier[k].total_amount)
       THEN /\ cashier' = [cashier EXCEPT ![k].toast = "invalid"]
            /\ UNCHANGED orders
       ELSE \/ /\ orders' = SettleOrder(cashier[k].selected)
               /\ cashier' = [cashier EXCEPT ![k].pc = "hp_insert"]
            \/ /\ cashier' = [cashier EXCEPT ![k].toast = "error"]
               /\ UNCHANGED orders
  /\ UNCHANGED <<lineItems, batch_orders, payments, cash_payments, gtfVars,
                 clientVars>>

\* handlePayment, lines 68-92: the payments row, method cash, status completed.
CashPaymentInsert(k) ==
  /\ cashier[k].pc = "hp_insert"
  /\ \/ /\ orders[cashier[k].selected].state = "live"
        /\ payments' = Append(payments,
             [order_id |-> cashier[k].selected, amount |-> cashier[k].total_amount,
              payment_method |-> "cash", status |-> "completed"])
        /\ cashier' = [cashier EXCEPT ![k].pc = "idle", ![k].toast = "ok"]
     \/ /\ cashier' = [cashier EXCEPT ![k].pc = "idle", ![k].toast = "error"]
        /\ UNCHANGED payments
  /\ UNCHANGED <<orders, lineItems, batch_orders, cash_payments, gtfVars,
                 clientVars>>

CashPayment(k) ==
  \/ \E o \in OrderIds : CashPaymentOpen(k, o)
  \/ \E text \in ReceivedTexts(k) : CashPaymentUpdateOrder(k, text)
  \/ CashPaymentInsert(k)

\* ------------------------------------- CashierPaymentV2 (search by parent)
\* searchOrders lists pending orders; handleViewDetail takes one of them,
\* sets paymentAmount to its total and receivedAmount to 0.
\* A detail dialog that opens for any order found, paid ones included.
HandleViewDetail_AnyOrder(k, o) ==
  /\ cashier[k].pc = "idle"
  /\ orders[o].state = "live"
  /\ cashier' = [cashier EXCEPT ![k] = [NoCashier EXCEPT !.screen = "CashierPaymentV2",
                                  !.selected = o,
                                  !.total_amount = orders[o].total_amount]]
  /\ cashier' # cashier
  /\ UNCHANGED <<storeVars, gtfVars, clientVars>>

HandleViewDetail(k, o) ==
  /\ cashier[k].pc = "idle"
  /\ orders[o].state = "live" /\ orders[o].payment_status = "pending"
  /\ cashier' = [cashier EXCEPT ![k] = [NoCashier EXCEPT !.screen = "CashierPaymentV2",
                                  !.selected = o,
                                  !.total_amount = orders[o].total_amount]]
  /\ cashier' # cashier
  /\ UNCHANGED <<storeVars, gtfVars, clientVars>>

\* A change that leaves out the subtraction.
ChangeAmount_Received(receivedAmount, paymentAmount) == receivedAmount

\* change_amount: receivedAmount - paymentAmount
ChangeAmount(receivedAmount, paymentAmount) == receivedAmount - paymentAmount

\* A processPayment that goes on to the order without its cash_payments row.
ProcessPaymentInsert_NoRow(k, text) ==
  /\ cashier[k].screen = "CashierPaymentV2"
  /\ cashier[k].pc = "idle"
  /\ cashier[k].toast = "none"
  /\ Len(cash_payments) < MaxPayments
  /\ IF NumberOrZero(text) < cashier[k].total_amount
       THEN cashier' = [cashier EXCEPT ![k].toast = "invalid"]
       ELSE cashier' = [cashier EXCEPT ![k].pc = "pp_update"]
  /\ UNCHANGED <<storeVars, gtfVars, clientVars>>

\* processPayment, lines 563-589: too small an amount is refused; otherwise
\* the cash_payments row is inserted, and an error of the insert ends the call.
ProcessPaymentInsert(k, text) ==
  /\ cashier[k].screen = "CashierPaymentV2"
  /\ cashier[k].pc = "idle"
  /\ cashier[k].toast = "none"
  /\ Len(cash_payments) < MaxPayments
  /\ LET receivedAmount == NumberOrZero(text)
         paymentAmount == cashier[k].total_amount
     IN IF receivedAmount < paymentAmount
          THEN /\ cashier' = [cashier EXCEPT ![k].toast = "invalid"]
               /\ UNCHANGED cash_payments
          ELSE \/ /\ orders[cashier[k].selected].state = "live"
                  /\ cash_payments' = Append(cash_payments,
                       [order_id |-> cashier[k].selected, amount |-> paymentAmount,
                        received_amount |-> receivedAmount,
                        change_amount |->
                          ChangeAmount(receivedAmount, paymentAmount)])
                  /\ cashier' = [cashier EXCEPT ![k].pc = "pp_update"]
               \/ /\ cashier' = [cashier EXCEPT ![k].toast = "error"]
                  /\ UNCHANGED cash_payments
  /\ UNCHANGED <<orders, lineItems, batch_orders, payments, gtfVars, clientVars>>

\* A processPayment that takes its cash_payments row back when the update of
\* the order fails.
ProcessPaymentUpdateOrder_UndoInsert(k) ==
  /\ cashier[k].pc = "pp_update"
  /\ \/ /\ orders' = MarkPaid(cashier[k].selected)
        /\ cashier' = [cashier EXCEPT ![k].pc = "idle", ![k].toast = "ok"]
        /\ UNCHANGED cash_payments
     \/ /\ cashier' = [cashier EXCEPT ![k].pc = "idle", ![k].toast = "error"]
        /\ cash_payments' = SubSeq(cash_payments, 1, Len(cash_payments) - 1)
        /\ UNCHANGED orders
  /\ UNCHANGED <<lineItems, batch_orders, payments, gtfVars, clientVars>>

\* processPayment, lines 591-622: the order is set to paid.
ProcessPaymentUpdateOrder(k) ==
  /\ cashier[k].pc = "pp_update"
  /\ \/ /\ orders' = MarkPaid(cashier[k].selected)
        /\ cashier' = [cashier EXCEPT ![k].pc = "idle", ![k].toast = "ok"]
     \/ /\ cashier' = [cashier EXCEPT ![k].pc = "idle", ![k].toast = "error"]
        /\ UNCHANGED orders
  /\ UNCHANGED <<lineItems, batch_orders, payments, cash_payments, gtfVars,
                 clientVars>>

CashierPaymentV2(k) ==
  \/ \E o \in OrderIds : HandleViewDetail(k, o)
  \/ \E text \in ReceivedTexts(k) : ProcessPaymentInsert(k, text)
  \/ ProcessPaymentUpdateOrder(k)

\* --------------------------------------------------------- initial states
IdleHandlers ==
  /\ gtfPc = [k \in Callers |-> "idle"]
  /\ gtfReq = [k \in Callers |-> NoReq]
  /\ gtfEnv = [k \in Callers |-> NoEnv]
  /\ gtfPayload = [k \in Callers |-> NoPayload]
  /\ gtfResp = [k \in Callers |-> NoResp]

IdleClients ==
  /\ pc = [c \in Clients |-> "idle"]
  /\ cur = [c \in Clients |-> NoCur]
  /\ cartItems = <<>>
  /\ localOrders = [c \in Clients |-> {}]
  /\ cashier = [k \in Cashiers |-> NoCashier]

\* ------------------------------- create-payment called with any request
PendingRow(total) == [NoRow EXCEPT !.state = "live", !.total_amount = total]

GtfOrderIds == {NoId, <<"ORDER", 1>>}
GtfAmounts == {0 - Scale} \cup (0..(2 * Scale))
GtfItems ==
  {[id |-> NoId, price |-> p[1], quantity |-> p[2], name |-> <<1>>] :
     p \in {<<0, 0>>, <<Scale, Scale>>, <<Scale, (3 * Scale) \div 2>>,
            <<(3 * Scale) \div 2, Scale>>, <<Scale, 0>>}}
GtfItemLists == UNION {[1..n -> GtfItems] : n \in 0..MaxItems}
GtfItemDetails ==
  {[present |-> FALSE, items |-> <<>>]}
    \cup {[present |-> TRUE, items |-> s] : s \in GtfItemLists}
GtfBatchOrderIds ==
  {[present |-> FALSE, ids |-> <<>>]}
    \cup {[present |-> TRUE, ids |-> s] : s \in {<<>>, <<1>>, <<1, 2>>, <<2, 3>>}}

GtfRequests ==
  [orderId : GtfOrderIds, amount : GtfAmounts,
   customerDetails : {"absent", "given"},
   itemDetails : GtfItemDetails, batchOrderIds : GtfBatchOrderIds]

\* Orders 1 and 2 exist; the function is called once, by any caller of it.
InitGtf ==
  /\ orders = [o \in OrderIds |-> IF o <= 2 THEN PendingRow(Whole(1)) ELSE NoRow]
  /\ lineItems = [o \in OrderIds |-> <<>>]
  /\ batch_orders = <<>>
  /\ payments = <<>>
  /\ cash_payments = <<>>
  /\ gtfPc = [k \in Callers |-> IF k = "ext" THEN "validate" ELSE "idle"]
  /\ \E r \in GtfRequests :
       gtfReq = [k \in Callers |-> IF k = "ext" THEN r ELSE NoReq]
  /\ gtfEnv = [k \in Callers |-> NoEnv]
  /\ gtfPayload = [k \in Callers |-> NoPayload]
  /\ gtfResp = [k \in Callers |-> NoResp]
  /\ IdleClients

NextGtf == \E k \in Callers : GtfStep(k)

SpecGtf == InitGtf /\ [][NextGtf]_vars

\* ------------------- create-payment called with items of any name length
\* A name of n characters, all different.
LongName(n) == [i \in 1..n |-> i]

\* No name, a short one, and names at, one over and two over the limit.
GtfNames ==
  {<<>>, <<1>>, LongName(NameLimit), LongName(NameLimit + 1),
   LongName(NameLimit + 2)}

GtfNamedItems ==
  {[id |-> NoId, price |-> Whole(1), quantity |-> Whole(1), name |-> n] :
     n \in GtfNames}

\* Requests with up to MaxItems items of one unit each, and an amount that is
\* their sum or is not.
GtfNameRequests ==
  [orderId : {<<"ORDER", 1>>}, amount : {Whole(n) : n \in 0..MaxItems},
   customerDetails : {"given"},
   itemDetails : {[present |-> TRUE, items |-> s] :
                    s \in UNION {[1..n -> GtfNamedItems] : n \in 0..MaxItems}},
   batchOrderIds : {[present |-> FALSE, ids |-> <<>>]}]

InitNames ==
  /\ orders = [o \in OrderIds |-> NoRow]
  /\ lineItems = [o \in OrderIds |-> <<>>]
  /\ batch_orders = <<>>
  /\ payments = <<>>
  /\ cash_payments = <<>>
  /\ gtfPc = [k \in Callers |-> IF k = "ext" THEN "validate" ELSE "idle"]
  /\ \E r \in GtfNameRequests :
       gtfReq = [k \in Callers |-> IF k = "ext" THEN r ELSE NoReq]
  /\ gtfEnv = [k \in Callers |-> NoEnv]
  /\ gtfPayload = [k \in Callers |-> NoPayload]
  /\ gtfResp = [k \in Callers |-> NoResp]
  /\ IdleClients

\* Without batchOrderIds the function validates and calls the gateway.
NextNames == \E k \in Callers : GtfValidate(k) \/ GtfCallGateway(k)

SpecNames == InitNames /\ [][NextNames]_vars

\* ------------------------------------- the menu page: carts checked out
\* The store is empty; a parent checks carts out, at most MaxCheckouts of them
\* reaching the store, while the cashier settles what is pending.
Init ==
  /\ orders = [o \in OrderIds |-> NoRow]
  /\ lineItems = [o \in OrderIds |-> <<>>]
  /\ batch_orders = <<>>
  /\ payments = <<>>
  /\ cash_payments = <<>>
  /\ IdleHandlers
  /\ IdleClients

\* A checkout's request carries no batchOrderIds: create-payment validates it
\* and calls the gateway.
Next ==
  \/ \E c \in OneSession :
       \/ FetchOrders(c)
       \/ HandleCheckout(c)
       \/ GtfValidate(c)
       \/ GtfCallGateway(c)
       \/ Return(c)
  \/ \E k \in OneCashier : CashPaymentV2(k)

Spec == Init /\ [][Next]_vars

\* ------------------------------------- the Orders page over placed orders
\* What checkout, a failed or successful payment request and the cashier
\* leave of an order: no row, a row without Midtrans id, a row with the id,
\* with id and token, and a paid row.
OrderShapes == {"none", "new", "unpaid", "tokened", "paid"}

ShapeCart(o) ==
  IF o % 2 = 1 THEN <<CartLine(1, Whole(3), 2), CartLine(2, Whole(4), 1)>>
  ELSE <<CartLine(2, (3 * Scale) \div 2, 1)>>

ShapeRow(shape, o) ==
  IF shape = "none" THEN NoRow
  ELSE [state |-> "live",
        total_amount |-> CalculateOrderTotal(OrderLineItems(o, ShapeCart(o))),
        status |-> IF shape = "paid" THEN "confirmed" ELSE "pending",
        payment_status |-> IF shape = "paid" THEN "paid" ELSE "pending",
        snap_token |-> IF shape \in {"tokened", "paid"} THEN o ELSE NoToken,
        midtrans_order_id |-> IF shape = "new" THEN NoId ELSE <<"ORDER", o>>]

ShapeLines(shape, o) ==
  IF shape = "none" THEN <<>> ELSE OrderLineItems(o, ShapeCart(o))

InitOrders ==
  /\ \E shape \in [OrderIds -> OrderShapes] :
       /\ orders = [o \in OrderIds |-> ShapeRow(shape[o], o)]
       /\ lineItems = [o \in OrderIds |-> ShapeLines(shape[o], o)]
  /\ batch_orders = <<>>
  /\ payments = <<>>
  /\ cash_payments = <<>>
  /\ IdleHandlers
  /\ IdleClients

\* One visit: the list is fetched and one operation is run on it, or a cart
\* is checked out; the widget that was opened calls back.
NextOrders ==
  \E c \in OneSession :
    \/ FetchOrders(c)
    \/ HandleCheckout(c)
    \/ RetryPayment(c)
    \/ ProcessBatchPayment(c)
    \/ GtfStep(c)
    \/ \E callback \in WidgetCallbacks : WidgetCallback(c, callback)

SpecOrders == InitOrders /\ [][NextOrders]_vars

\* ------------------------------------ the cashier's screens over placed orders
\* The row and the line items a checkout of the cart leaves, before any token.
PlacedRow(o, cart) ==
  [ShapeRow("unpaid", o) EXCEPT
     !.total_amount = CalculateOrderTotal(OrderLineItems(o, cart))]

\* Checkouts have placed the first n orders, each from a cart with lines.
InitCashier ==
  /\ \E n \in 0..MaxCheckouts : \E cartOf \in [1..n -> Carts \ {<<>>}] :
       /\ orders = [o \in OrderIds |->
            IF o <= n THEN PlacedRow(o, cartOf[o]) ELSE NoRow]
       /\ lineItems = [o \in OrderIds |->
            IF o <= n THEN OrderLineItems(o, cartOf[o]) ELSE <<>>]
  /\ batch_orders = <<>>
  /\ payments = <<>>
  /\ cash_payments = <<>>
  /\ IdleHandlers
  /\ IdleClients

NextCashier ==
  \E k \in OneCashier : CashPaymentV2(k) \/ CashPayment(k) \/ CashierPaymentV2(k)

SpecCashier == InitCashier /\ [][NextCashier]_vars

\* ------------------------------------------- admin/OrderManagementV2.tsx
\* Line 67: type OrderStatus.
OrderStatuses ==
  {"pending", "confirmed", "preparing", "ready", "delivered", "cancelled"}

\* A status update that also resets the payment of an order set to pending.
UpdateOrderStatus_ResetPayment(o, newStatus) ==
  /\ o \in OrderIds \ FreeOrders
  /\ orders' = [orders EXCEPT ![o] =
       IF @.state # "live" THEN @
       ELSE IF newStatus = "pending"
         THEN [@ EXCEPT !.status = newStatus, !.payment_status = "pending"]
         ELSE [@ EXCEPT !.status = newStatus]]
  /\ UNCHANGED <<lineItems, batch_orders, payments, cash_payments, gtfVars,
                 clientVars, cashier>>

\* Lines 209-232: update({status: newStatus}).eq('id', orderId) for an order
\* of the admin's list; an error leaves the store as it is.
UpdateOrderStatus(o, newStatus) ==
  /\ o \in OrderIds \ FreeOrders
  /\ orders' = UpdateOrder(o, "status", newStatus)
  /\ UNCHANGED <<lineItems, batch_orders, payments, cash_payments, gtfVars,
                 clientVars, cashier>>

\* Lines 234-267: update({status: bulkStatus}).in('id', selectedOrders); an
\* empty selection returns early.
UpdateBulkOrderStatus(selectedOrders, bulkStatus) ==
  /\ selectedOrders # {}
  /\ selectedOrders \subseteq OrderIds \ FreeOrders
  /\ orders' = [o \in OrderIds |->
       IF o \in selectedOrders /\ orders[o].state = "live"
         THEN [orders[o] EXCEPT !.status = bulkStatus]
         ELSE orders[o]]
  /\ UNCHANGED <<lineItems, batch_orders, payments, cash_payments, gtfVars,
                 clientVars, cashier>>

\* The statuses the admin picks here.
AdminChoices == {"pending", "cancelled"}

\* ------------------------------------------------- Index.tsx: the cart
\* What the page offers: menu items, the parent's children, the date picked
\* (a local day and minute of the day), the browser's offset from UTC in
\* minutes (Asia/Jakarta), and the instant Date.now() returns: entries made
\* in the same millisecond are the case where only the key tells ids apart.
MenuItems == {1, 2}
ChildIds == {1, 2}
NoChild == 0
SelectedDates == {[day |-> 1, minute |-> 0], [day |-> 1, minute |-> 600]}
UtcOffsets == {420}
Instants == {1}

\* selectedDate.toISOString().split('T')[0]: the day of the date in UTC.
DateString(selectedDate, offset) ==
  (selectedDate.day * 1440 + selectedDate.minute - offset) \div 1440

\* cartItems.find(...): the first of the entries that satisfy the test (found
\* holds their positions), if any.
FindIndex(found) ==
  IF found = {} THEN 0 ELSE CHOOSE i \in found : \A j \in found : i <= j

\* An addToCart that appends a new entry whatever the cart holds.
AddToCart_AlwaysNew(user, children, selectedChildForMenu, menuItem, selectedDate, offset, now) ==
  /\ Len(cartItems) < MaxItems
  /\ IF ~user \/ children = {} \/ selectedChildForMenu = NoChild
        \/ selectedChildForMenu \notin children
       THEN UNCHANGED cartItems
       ELSE cartItems' = Append(cartItems,
              [id |-> <<menuItem, DateString(selectedDate, offset),
                        selectedChildForMenu, now>>,
               price |-> Whole(menuItem), quantity |-> 1,
               menu_item_id |-> menuItem,
               date |-> DateString(selectedDate, offset),
               child_id |-> selectedChildForMenu])
  /\ UNCHANGED <<storeVars, gtfVars, pc, cur, localOrders, cashier>>

\* Lines 104-180.  Without a user, without children, without a selected
\* child or with one that is not among the children, a toast is shown and
\* the cart stays.  Otherwise the entry of the same menu item, date and child
\* gets one more, or a new entry with quantity 1 is appended.
AddToCart(user, children, selectedChildForMenu, menuItem, selectedDate, offset, now) ==
  /\ IF ~user \/ children = {} \/ selectedChildForMenu = NoChild
        \/ selectedChildForMenu \notin children
       THEN UNCHANGED cartItems
       ELSE LET dateString == DateString(selectedDate, offset)
                Same(item) == /\ item.menu_item_id = menuItem
                              /\ item.date = dateString
                              /\ item.child_id = selectedChildForMenu
                existing == FindIndex({i \in 1..Len(cartItems) : Same(cartItems[i])})
            IN IF existing # 0
                 THEN /\ cartItems[existing].quantity < MaxQuantity
                      /\ cartItems' = [i \in 1..Len(cartItems) |->
                           IF cartItems[i].id = cartItems[existing].id
                             THEN [cartItems[i] EXCEPT !.quantity = @ + 1]
                             ELSE cartItems[i]]
                 ELSE /\ Len(cartItems) < MaxItems
                      /\ cartItems' = Append(cartItems,
                           [id |-> <<menuItem, dateString,
                                     selectedChildForMenu, now>>,
                            price |-> Whole(menuItem), quantity |-> 1,
                            menu_item_id |-> menuItem, date |-> dateString,
                            child_id |-> selectedChildForMenu])
  /\ UNCHANGED <<storeVars, gtfVars, pc, cur, localOrders, cashier>>

\* Lines 182-194: an entry with more than one gets one less; otherwise the
\* entries with that id are filtered out.
RemoveFromCart(itemId) ==
  /\ LET HasId(item) == item.id = itemId
         OtherId(item) == item.id # itemId
         existing == FindIndex({i \in 1..Len(cartItems) : HasId(cartItems[i])})
     IN IF existing # 0 /\ cartItems[existing].quantity > 1
          THEN cartItems' = [i \in 1..Len(cartItems) |->
                 IF cartItems[i].id = itemId
                   THEN [cartItems[i] EXCEPT !.quantity = @ - 1]
                   ELSE cartItems[i]]
          ELSE cartItems' = SelectSeq(cartItems, OtherId)
  /\ UNCHANGED <<storeVars, gtfVars, pc, cur, localOrders, cashier>>

\* The ids the page can hand to removeFromCart: those of the entries shown.
NextCart ==
  \/ \E user \in BOOLEAN, children \in {{}, {1}, ChildIds},
        selectedChildForMenu \in ChildIds \cup {NoChild},
        menuItem \in MenuItems, selectedDate \in SelectedDates,
        offset \in UtcOffsets, now \in Instants :
       AddToCart(user, children, selectedChildForMenu, menuItem, selectedDate,
                 offset, now)
  \/ \E i \in 1..Len(cartItems) : RemoveFromCart(cartItems[i].id)

SpecCart == Init /\ [][NextCart]_vars

\* ----------------------- two sessions paying batches of the same orders
\* The first MaxRaceOrders orders are placed and pending, without token, the
\* odd ones without a Midtrans id; both sessions have fetched them.
RaceShape(o) == IF o % 2 = 1 THEN "new" ELSE "unpaid"

InitBatchRace ==
  /\ orders = [o \in OrderIds |->
       IF o <= MaxRaceOrders THEN ShapeRow(RaceShape(o), o) ELSE NoRow]
  /\ lineItems = [o \in OrderIds |->
       IF o <= MaxRaceOrders THEN ShapeLines(RaceShape(o), o) ELSE <<>>]
  /\ localOrders = [c \in Clients |->
       {[id |-> o, total_amount |-> ShapeRow(RaceShape(o), o).total_amount,
         payment_status |-> "pending", snap_token |-> NoToken,
         midtrans_order_id |-> ShapeRow(RaceShape(o), o).midtrans_order_id,
         order_line_items |-> ShapeLines(RaceShape(o), o)] :
          o \in 1..MaxRaceOrders}]
  /\ batch_orders = <<>>
  /\ payments = <<>>
  /\ cash_payments = <<>>
  /\ IdleHandlers
  /\ pc = [c \in Clients |-> "idle"]
  /\ cur = [c \in Clients |-> NoCur]
  /\ cartItems = <<>>
  /\ cashier = [k \in Cashiers |-> NoCashier]

NextBatchRace == \E c \in Clients : ProcessBatchPayment(c) \/ GtfStep(c)

SpecBatchRace == InitBatchRace /\ [][NextBatchRace]_vars

\* ------------------------------- two sessions retrying the same orders
\* Both sessions hold the list loaded before any token was stored; each may
\* load it again before its retry.  A retry's request carries no
\* batchOrderIds.
NextRetryRace ==
  \E c \in Clients :
    \/ FetchOrders(c)
    \/ RetryPayment(c)
    \/ GtfValidate(c)
    \/ GtfCallGateway(c)

SpecRetryRace == InitBatchRace /\ [][NextRetryRace]_vars

\* ---------------------------------- two cashiers settling the same orders
\* MaxCheckouts orders are placed and pending; each cashier works on any of
\* the three screens.
InitCashierRace ==
  /\ orders = [o \in OrderIds |->
       IF o <= MaxCheckouts THEN ShapeRow(RaceShape(o), o) ELSE NoRow]
  /\ lineItems = [o \in OrderIds |->
       IF o <= MaxCheckouts THEN ShapeLines(RaceShape(o), o) ELSE <<>>]
  /\ batch_orders = <<>>
  /\ payments = <<>>
  /\ cash_payments = <<>>
  /\ IdleHandlers
  /\ IdleClients

NextCashierRace ==
  \E k \in Cashiers : CashPaymentV2(k) \/ CashPayment(k) \/ CashierPaymentV2(k)

SpecCashierRace == InitCashierRace /\ [][NextCashierRace]_vars

\* ------------------------- the whole workflow: parent, cashier and admin
\* The store is empty or holds one placed order the parent has listed.  The
\* parent runs one operation (a checkout of a fixed cart, a retry or a batch
\* payment) while the cashier settles orders in cash for the amount due, on
\* any of the three screens, and the admin sets order statuses.
InitWorkflow ==
  /\ \E n \in {0, 1} :
       /\ orders = [o \in OrderIds |->
            IF o <= n THEN ShapeRow(RaceShape(o), o) ELSE NoRow]
       /\ lineItems = [o \in OrderIds |->
            IF o <= n THEN ShapeLines(RaceShape(o), o) ELSE <<>>]
       /\ localOrders = [c \in Clients |->
            IF c \in OneSession
              THEN {[id |-> o,
                     total_amount |-> ShapeRow(RaceShape(o), o).total_amount,
                     payment_status |-> "pending", snap_token |-> NoToken,
                     midtrans_order_id |-> ShapeRow(RaceShape(o), o).midtrans_order_id,
                     order_line_items |-> ShapeLines(RaceShape(o), o)] :
                      o \in 1..n}
              ELSE {}]
  /\ batch_orders = <<>>
  /\ payments = <<>>
  /\ cash_payments = <<>>
  /\ IdleHandlers
  /\ pc = [c \in Clients |-> "idle"]
  /\ cur = [c \in Clients |-> NoCur]
  /\ cartItems = <<>>
  /\ cashier = [k \in Cashiers |-> NoCashier]

WorkflowCheckout(c) ==
  \/ \E cart \in {<<>>, ShapeCart(1)} : CheckoutStart(c, TRUE, cart, TRUE)
  \/ CheckoutInsertOrder(c)
  \/ CheckoutInsertLineItems(c)
  \/ CheckoutRollback(c)
  \/ CheckoutSetMidtransId(c)
  \/ CheckoutOnResponse(c)
  \/ CheckoutSaveToken(c)

WorkflowCashier(k) ==
  \/ \E o \in OrderIds : CashierSelectOrder(k, o)
  \/ HandlePaymentUpdateOrder(k, <<cashier[k].total_amount>>)
  \/ HandlePaymentInsert(k)
  \/ \E o \in OrderIds : CashPaymentOpen(k, o)
  \/ CashPaymentUpdateOrder(k, <<cashier[k].total_amount>>)
  \/ CashPaymentInsert(k)
  \/ \E o \in OrderIds : HandleViewDetail(k, o)
  \/ ProcessPaymentInsert(k, <<cashier[k].total_amount>>)
  \/ ProcessPaymentUpdateOrder(k)

WorkflowAdmin ==
  \/ \E o \in OrderIds, newStatus \in AdminChoices :
       UpdateOrderStatus(o, newStatus)
  \/ \E selectedOrders \in SUBSET OrderIds, bulkStatus \in AdminChoices :
       UpdateBulkOrderStatus(selectedOrders, bulkStatus)

NextWorkflow ==
  \/ \E c \in OneSession :
       \/ WorkflowCheckout(c)
       \/ RetryPayment(c)
       \/ ProcessBatchPayment(c)
       \/ GtfStep(c)
  \/ \E k \in OneCashier : WorkflowCashier(k)
  \/ WorkflowAdmin

SpecWorkflow == InitWorkflow /\ [][NextWorkflow]_vars

\* ------------------------- a parent's session: checkout, then the Orders page
\* The store is empty; the parent checks a cart out, looks at the orders and
\* retries the payment of one.
NextSession ==
  \E c \in OneSession :
    \/ FetchOrders(c)
    \/ HandleCheckout(c)
    \/ RetryPayment(c)
    \/ GtfValidate(c)
    \/ GtfCallGateway(c)
    \/ Return(c)

SpecSession == Init /\ [][NextSession]_vars

\* =================================================================== claims
\* ------------------------------------------------ create-payment, SpecGtf
\* C1: for every accepted request, the payload sent to the gateway satisfies
\* sum over item_details of price * quantity = gross_amount = round(amount).
C1_PayloadSumsToGross ==
  \A k \in Callers :
    gtfPayload[k].sent =>
      /\ CalculatedTotal(gtfPayload[k].item_details) = gtfPayload[k].gross_amount
      /\ gtfPayload[k].gross_amount = MathRound(gtfReq[k].amount)

\* C2: the normalized itemization is sent exactly when the sum of the
\* normalized item totals equals round(amount); in every other case one item
\* is sent, with price round(amount), quantity 1 and the name "Batch Payment
\* (n orders)" for more than one batch order id, else "Payment".
C2_ItemizationIffSumIsRounded ==
  \A k \in Callers :
    gtfPayload[k].sent =>
      LET req == gtfReq[k]
          sent == gtfPayload[k].item_details
          n == Len(req.batchOrderIds.ids)
      IN IF HasItems(req)
              /\ CalculatedTotal(NormalizedItems(req)) = MathRound(req.amount)
           THEN sent = NormalizedItems(req)
           ELSE /\ Len(sent) = 1
                /\ sent[1].price = MathRound(req.amount)
                /\ sent[1].quantity = Whole(1)
                /\ sent[1].name =
                     IF req.batchOrderIds.present /\ n > 1
                       THEN <<BatchWord, n>> ELSE <<PaymentWord>>

\* C9, as claimed: whenever the gateway was called for a request with batch
\* order ids, a row for every id is in batch_orders; a failed insertion ends
\* in an error without a call.
C9_GatewayOnlyAfterRows ==
  \A k \in Callers :
    /\ (HasBatch(gtfReq[k]) /\ gtfPayload[k].sent) =>
         \A i \in 1..Len(gtfReq[k].batchOrderIds.ids) :
           \E j \in 1..Len(batch_orders) :
             batch_orders[j] = [batch_id |-> gtfReq[k].orderId,
                                order_id |-> gtfReq[k].batchOrderIds.ids[i]]
    /\ gtfResp[k].error = "Database error" =>
         gtfResp[k].status = 500 /\ ~gtfPayload[k].sent

\* C9, amended: the same for a handler that found the store connection
\* configured; without it no row is written and the gateway is still called.
C9_GatewayOnlyAfterRowsWhenConfigured ==
  \A k \in Callers :
    /\ (HasBatch(gtfReq[k]) /\ gtfPayload[k].sent /\ gtfEnv[k].store = "set") =>
         \A i \in 1..Len(gtfReq[k].batchOrderIds.ids) :
           \E j \in 1..Len(batch_orders) :
             batch_orders[j] = [batch_id |-> gtfReq[k].orderId,
                                order_id |-> gtfReq[k].batchOrderIds.ids[i]]
    /\ (HasBatch(gtfReq[k]) /\ gtfPayload[k].sent /\ gtfEnv[k].store = "missing") =>
         batch_orders = <<>>
    /\ gtfResp[k].error = "Database error" =>
         /\ gtfResp[k].status = 500 /\ ~gtfPayload[k].sent
         /\ gtfPc[k] = "done" /\ batch_orders = <<>>

C9_Witness ==
  \E k \in Callers :
    /\ gtfPayload[k].sent /\ gtfEnv[k].store = "set"
    /\ Len(gtfReq[k].batchOrderIds.ids) = 2
    /\ Len(batch_orders) = 2

\* ------------------------------------------------------- checkout, Spec
\* C3: a call of create-payment or of checkout with amount <= 0 or without an
\* order id ends in an error, writes nothing to the store and never calls the
\* gateway.
C3_NoSideEffectsWhenInvalid ==
  /\ \A k \in Callers :
       (gtfPc[k] # "idle" /\ (gtfReq[k].orderId = NoId \/ gtfReq[k].amount <= 0)) =>
         /\ gtfPc[k] \in {"validate", "done"}
         /\ ~gtfPayload[k].sent
         /\ gtfPc[k] = "done" => gtfResp[k].status = 500
  /\ \A c \in Clients :
       (pc[c] # "idle" /\ cur[c].op = "checkout" /\ cur[c].amount <= 0) =>
         /\ cur[c].writes = 0
         /\ cur[c].calls = 0
         /\ pc[c] = "done" => cur[c].result = "error"

\* C10, as claimed: when the insert of the line items failed, the order row
\* that checkout created is not in the store when checkout ends, and no
\* gateway call was made.
C10_RollbackRemovesOrder ==
  \A c \in Clients :
    (/\ pc[c] = "done" /\ cur[c].op = "checkout"
     /\ cur[c].order # 0 /\ lineItems[cur[c].order] = <<>>) =>
      /\ orders[cur[c].order].state # "live"
      /\ cur[c].calls = 0

\* C10, amended: when the insert of the line items failed, checkout requests
\* the deletion of the order row it created and ends in an error without a
\* call of create-payment; the row is gone if that deletion succeeds, and is
\* left without line items if it fails (the result is not read).
C10_RollbackRequested ==
  \A c \in Clients :
    (/\ pc[c] = "done" /\ cur[c].op = "checkout"
     /\ cur[c].order # 0 /\ lineItems[cur[c].order] = <<>>) =>
      /\ cur[c].writes = 3
      /\ cur[c].calls = 0 /\ gtfPc[c] = "idle"
      /\ cur[c].result = "error"
      /\ cur[c].deleted => orders[cur[c].order].state = "deleted"
      /\ ~cur[c].deleted => orders[cur[c].order].state = "live"

C10_Witness ==
  \E c \in Clients :
    /\ pc[c] = "done" /\ cur[c].op = "checkout" /\ cur[c].writes = 3
    /\ cur[c].order # 0 /\ cur[c].deleted
    /\ orders[cur[c].order].state = "deleted"

\* ------------------------------------------- the Orders page, SpecOrders
\* C4, as claimed: retryPayment on an order with a cached snap_token opens the
\* widget with that token, without a call of create-payment and without a
\* write to the store.
C4_RetryOpensCachedToken ==
  \A c \in Clients : \A g \in cur[c].given :
    (cur[c].op = "retry" /\ g.snap_token # NoToken) =>
      /\ pc[c] = "done"
      /\ cur[c].widget = g.snap_token
      /\ cur[c].calls = 0 /\ gtfPc[c] = "idle"
      /\ cur[c].writes = 0

\* C4, amended: such a retry makes no call of create-payment and no write to
\* the store; it opens the widget with the cached token when window.snap is
\* loaded, and otherwise ends in an error without opening it.
C4_RetryReusesCachedToken ==
  \A c \in Clients : \A g \in cur[c].given :
    (cur[c].op = "retry" /\ g.snap_token # NoToken) =>
      /\ pc[c] = "done"
      /\ cur[c].calls = 0 /\ gtfPc[c] = "idle"
      /\ cur[c].writes = 0
      /\ cur[c].snap \in {"loaded", "missing"}
      /\ cur[c].snap = "loaded" =>
           cur[c].widget = g.snap_token /\ cur[c].result = "ok"
      /\ cur[c].snap = "missing" =>
           cur[c].widget = NoToken /\ cur[c].result = "error"

C4_Witness ==
  \E c \in Clients : \E g \in cur[c].given :
    /\ cur[c].op = "retry" /\ g.snap_token # NoToken
    /\ pc[c] = "done" /\ cur[c].widget = g.snap_token

\* C5, as claimed: after a batch payment that ended well (token received,
\* widget opened), every order of the batch carries that token and the batch
\* id, and batch_orders holds exactly one row that maps the batch id to each
\* order of the batch.
C5_BatchPairOnEveryOrder ==
  \A c \in Clients :
    (pc[c] = "done" /\ cur[c].op = "batch" /\ cur[c].result = "ok") =>
      \A i \in 1..Len(cur[c].pending) :
        LET o == cur[c].pending[i] IN
          /\ orders[o].snap_token = cur[c].token
          /\ orders[o].midtrans_order_id = cur[c].orderId
          /\ cur[c].orderId[1] = "BATCH"
          /\ Cardinality({j \in 1..Len(batch_orders) :
                batch_orders[j] = [batch_id |-> cur[c].orderId, order_id |-> o]}) = 1

\* C5, amended: every order of the batch whose update succeeded carries the
\* token and the batch id; batch_orders holds either exactly one row per
\* order of the batch for the batch id, or (store connection not configured)
\* no row for it.
C5_BatchPairOnUpdatedOrders ==
  \A c \in Clients :
    (pc[c] = "done" /\ cur[c].op = "batch" /\ cur[c].token # NoToken) =>
      LET rows == {j \in 1..Len(batch_orders) :
                     batch_orders[j].batch_id = cur[c].orderId}
          ids == SeqToSet(cur[c].pending)
      IN /\ cur[c].orderId[1] = "BATCH"
         /\ cur[c].updated \subseteq ids
         /\ \A o \in cur[c].updated :
              /\ orders[o].snap_token = cur[c].token
              /\ orders[o].midtrans_order_id = cur[c].orderId
         /\ \A o \in ids \ cur[c].updated :
              /\ orders[o].snap_token # cur[c].token
              /\ orders[o].midtrans_order_id # cur[c].orderId
         /\ \/ rows = {}
            \/ /\ {batch_orders[j].order_id : j \in rows} = ids
               /\ Cardinality(rows) = Cardinality(ids)

C5_Witness ==
  \E c \in Clients :
    /\ pc[c] = "done" /\ cur[c].op = "batch" /\ cur[c].token # NoToken
    /\ Len(cur[c].pending) >= 2
    /\ cur[c].updated = SeqToSet(cur[c].pending)
    /\ Len(batch_orders) = Len(cur[c].pending)

\* C6, as claimed: once the batch has its token, an update is requested for
\* every order of the batch whether or not an earlier one failed, every
\* order whose update succeeded carries the token and the batch id, and the
\* widget is opened with the token.
C6_FanOutThenWidget ==
  \A c \in Clients :
    /\ (pc[c] = "bp_update") => cur[c].writes = cur[c].idx - 1
    /\ (pc[c] = "done" /\ cur[c].op = "batch" /\ cur[c].token # NoToken) =>
         /\ cur[c].writes = Len(cur[c].pending)
         /\ \A o \in cur[c].updated :
              /\ orders[o].snap_token = cur[c].token
              /\ orders[o].midtrans_order_id = cur[c].orderId
         /\ cur[c].widget = cur[c].token

\* C6, amended: the same, with the widget opened when window.snap is loaded;
\* when it is not, the batch payment ends in an error after the updates.
C6_FanOutBestEffort ==
  \A c \in Clients :
    /\ (pc[c] = "bp_update") => cur[c].writes = cur[c].idx - 1
    /\ (pc[c] = "done" /\ cur[c].op = "batch" /\ cur[c].token # NoToken) =>
         /\ cur[c].writes = Len(cur[c].pending)
         /\ \A o \in cur[c].updated :
              /\ orders[o].snap_token = cur[c].token
              /\ orders[o].midtrans_order_id = cur[c].orderId
         /\ cur[c].snap \in {"loaded", "missing"}
         /\ cur[c].snap = "loaded" =>
              cur[c].widget = cur[c].token /\ cur[c].result = "ok"
         /\ cur[c].snap = "missing" =>
              cur[c].widget = NoToken /\ cur[c].result = "error"

C6_Witness ==
  \E c \in Clients :
    /\ pc[c] = "done" /\ cur[c].op = "batch" /\ cur[c].token # NoToken
    /\ Len(cur[c].pending) >= 2
    /\ cur[c].pending[1] \notin cur[c].updated
    /\ cur[c].pending[2] \in cur[c].updated
    /\ cur[c].widget = cur[c].token

\* C7: a batch payment over the pending orders it is given calls
\* create-payment exactly once, with the sum of their total_amount as amount,
\* a new batch id as orderId and exactly their ids as batchOrderIds.
C7_OneRequestPerBatch ==
  \A c \in Clients :
    (cur[c].op = "batch" /\ cur[c].pending # <<>>) =>
      LET pend == {g \in cur[c].given : g.payment_status = "pending"}
          RECURSIVE Sum(_)
          Sum(S) == IF S = {} THEN 0
                    ELSE LET g == CHOOSE x \in S : TRUE
                         IN g.total_amount + Sum(S \ {g})
      IN /\ cur[c].calls = 1
         /\ gtfPc[c] # "idle" =>
              /\ gtfReq[c].amount = Sum(pend)
              /\ gtfReq[c].orderId # NoId /\ gtfReq[c].orderId[1] = "BATCH"
              /\ \A o \in OrderIds : orders[o].midtrans_order_id # gtfReq[c].orderId
              /\ gtfReq[c].batchOrderIds.present
              /\ SeqToSet(gtfReq[c].batchOrderIds.ids) = {g.id : g \in pend}
              /\ Len(gtfReq[c].batchOrderIds.ids) = Cardinality(pend)

C7_Witness ==
  \E c \in Clients :
    /\ cur[c].op = "batch" /\ gtfPc[c] = "done" /\ gtfPayload[c].sent
    /\ Len(gtfReq[c].batchOrderIds.ids) >= 2
    /\ Cardinality(cur[c].given) > Len(cur[c].pending)

\* C8: a batch payment leaves the orders it is given that are not pending
\* out of batchOrderIds and never writes the batch token or id to them; with
\* no pending order among them it calls nothing and writes nothing.
C8_OnlyPendingOrders ==
  \A c \in Clients :
    cur[c].op = "batch" =>
      /\ \A g \in cur[c].given :
           g.payment_status # "pending" =>
             /\ g.id \notin SeqToSet(cur[c].pending)
             /\ g.id \notin SeqToSet(gtfReq[c].batchOrderIds.ids)
             /\ g.id \notin cur[c].updated
             /\ orders[g.id].snap_token = g.snap_token
             /\ orders[g.id].midtrans_order_id = g.midtrans_order_id
      /\ (\A g \in cur[c].given : g.payment_status # "pending") =>
           /\ pc[c] = "done"
           /\ cur[c].calls = 0 /\ gtfPc[c] = "idle"
           /\ cur[c].writes = 0
           /\ cur[c].result = IF cur[c].given = {} THEN "error" ELSE "info"

C8_Witness ==
  \E c \in Clients :
    /\ pc[c] = "done" /\ cur[c].op = "batch"
    /\ \E g \in cur[c].given : g.payment_status = "paid"
    /\ cur[c].updated # {}

\* ------------------------------------------------ checkout, Spec (cont.)
\* C11: a checkout of an empty cart, or of a cart with no child selected,
\* ends at once in an error shown to the user, with no write to the store and
\* no call of create-payment.
C11_EmptyCartOrNoChildRejected ==
  [][\A c \in Clients : \A user \in BOOLEAN, cart \in Carts, child \in BOOLEAN :
       (CheckoutStart(c, user, cart, child) /\ (cart = <<>> \/ ~child)) =>
         /\ pc'[c] = "done"
         /\ cur'[c].result = "error"
         /\ cur'[c].writes = 0 /\ cur'[c].calls = 0
         /\ UNCHANGED <<storeVars, gtfVars>>]_vars

C11_Witness ==
  \E c \in Clients :
    /\ pc[c] = "done" /\ cur[c].op = "checkout" /\ cur[c].items = <<>>
    /\ cur[c].result = "error" /\ cur[c].writes = 0 /\ cur[c].calls = 0

\* -------------------------------------- checkout then retry, SpecSession
\* C12: when the gateway was called for a checkout and gave no token, the
\* checkout ends with its order and line items in the store, pending and
\* without snap_token; a retryPayment on an order without token sends a new
\* request, and the token that comes back is the retry's.
C12_OrderKeptAfterGatewayFailure ==
  [][\A c \in Clients :
       /\ (/\ CheckoutOnResponse(c)
           /\ gtfPayload[c].sent
           /\ gtfResp[c].status # 200 \/ gtfResp[c].snap_token = NoToken) =>
            /\ pc'[c] = "done" /\ cur'[c].result = "error"
            /\ UNCHANGED storeVars
            /\ orders'[cur[c].order].state = "live"
            /\ orders'[cur[c].order].payment_status = "pending"
            /\ orders'[cur[c].order].snap_token = NoToken
            /\ lineItems'[cur[c].order] =
                 OrderLineItems(cur[c].order, cur[c].items)
       /\ \A g \in localOrders[c] :
            (RetryStart(c, g) /\ g.snap_token = NoToken) =>
              /\ pc'[c] \in {"rt_wait", "rt_set_id"}
              /\ pc'[c] = "rt_wait" =>
                   /\ gtfPc'[c] = "validate"
                   /\ gtfReq'[c].orderId = g.midtrans_order_id
                   /\ gtfReq'[c].amount = g.total_amount
       /\ (/\ RetryOnResponse(c)
           /\ gtfResp[c].status = 200 /\ gtfResp[c].snap_token # NoToken) =>
            /\ pc'[c] = "rt_save_token"
            /\ cur'[c].token = gtfResp[c].snap_token]_vars

C12_Witness ==
  \E c \in Clients :
    /\ pc[c] = "done" /\ cur[c].op = "retry" /\ cur[c].calls = 1
    /\ cur[c].token # NoToken /\ cur[c].widget = cur[c].token
    /\ orders[cur[c].order].snap_token = cur[c].token
    /\ orders[cur[c].order].payment_status = "pending"
    /\ lineItems[cur[c].order] # <<>>

\* ------------------------------------------ cash settlement, SpecCashier
\* The text of the amount field is no amount, or an amount below the total.
TooLittle(k, text) == text = NoText \/ text[1] < cashier[k].total_amount

\* The call ends with the refusal shown and nothing written.
RejectedLocally(k) == cashier'[k].toast = "invalid" /\ UNCHANGED storeVars

CashRecorded(o) ==
  \/ \E i \in 1..Len(payments) :
       payments[i].order_id = o /\ payments[i].payment_method = "cash"
  \/ \E i \in 1..Len(cash_payments) : cash_payments[i].order_id = o

\* C14: when a cash settlement with a sufficient amount has gone through (the
\* screen reports success), a cash payment record of the order is in the
\* store and the order has payment_status = paid and status = confirmed.
C14_SettledIsPaidAndConfirmed ==
  \A k \in Cashiers :
    (cashier[k].toast = "ok" /\ orders[cashier[k].selected].state = "live") =>
      /\ CashRecorded(cashier[k].selected)
      /\ orders[cashier[k].selected].payment_status = "paid"
      /\ orders[cashier[k].selected].status = "confirmed"

\* Every cash_payments row holds change_amount = received_amount - amount,
\* not negative, with amount the total of its order.
ChangeRowsConsistent ==
  \A i \in 1..Len(cash_payments) :
    LET row == cash_payments[i]
    IN /\ row.change_amount = row.received_amount - row.amount
       /\ row.change_amount >= 0
       /\ orders[row.order_id].state = "live" =>
            row.amount = orders[row.order_id].total_amount

\* C15: the change stored with a recorded cash settlement is the received
\* amount minus the order's total_amount and is never negative: it holds of
\* every cash_payments row, and the row processPayment adds holds the amount
\* that was entered (an empty field counts as 0).
C15_ChangeIsReceivedMinusTotal ==
  /\ []ChangeRowsConsistent
  /\ [][\A k \in Cashiers : \A text \in ReceivedTexts(k) :
         (ProcessPaymentInsert(k, text) /\ cash_payments' # cash_payments) =>
           LET row == cash_payments'[Len(cash_payments')]
           IN /\ row.order_id = cashier[k].selected
              /\ row.received_amount = NumberOrZero(text)
              /\ row.change_amount =
                   NumberOrZero(text) - orders[cashier[k].selected].total_amount
              /\ row.change_amount >= 0]_vars

C15_Witness ==
  \E i \in 1..Len(cash_payments) :
    /\ cash_payments[i].change_amount = Whole(1)
    /\ cash_payments[i].amount > 0
    /\ cash_payments[i].received_amount = cash_payments[i].amount + Whole(1)

\* -------------------------------------------- widget callbacks, SpecOrders
\* C16: no callback of the payment widget (onSuccess, onPending, onError,
\* onClose), in checkout, retry or batch payment, writes to the store: the
\* order rows, payment_status and status included, are the same after it.
C16_CallbacksWriteNothing ==
  [][\A c \in Clients : \A callback \in WidgetCallbacks :
       WidgetCallback(c, callback) =>
         /\ \A o \in OrderIds :
              /\ orders'[o].payment_status = orders[o].payment_status
              /\ orders'[o].status = orders[o].status
         /\ UNCHANGED storeVars]_vars

C16_Witness ==
  \E c \in Clients :
    /\ cur[c].op = "batch" /\ cur[c].callback = "onSuccess"
    /\ \E o \in OrderIds :
         /\ orders[o].state = "live" /\ orders[o].snap_token = cur[c].widget
         /\ orders[o].payment_status = "pending"
         /\ orders[o].status = "pending"

\* ------------------------------------------------ checkout totals, Spec
\* The sum of price * quantity over the lines of a cart.
SumOfLines(cart) ==
  SeqSum([i \in 1..Len(cart) |-> (cart[i].price * cart[i].quantity) \div Scale])

\* C17: a checkout inserts one orders row, and no other step of it adds one;
\* when it invokes create-payment, the order's total_amount and the amount of
\* the request both are the sum of price * quantity over the cart lines.
C17_OneOrderWithCartTotal ==
  [][\A c \in Clients :
       /\ CheckoutInsertOrder(c) =>
            /\ Cardinality(LiveOrders') <= Cardinality(LiveOrders) + 1
            /\ LiveOrders' \ LiveOrders \subseteq {cur'[c].order}
       /\ (HandleCheckout(c) /\ ~CheckoutInsertOrder(c)) =>
            LiveOrders' \subseteq LiveOrders
       /\ CheckoutSetMidtransId(c) =>
            /\ orders'[cur[c].order].state = "live"
            /\ orders'[cur[c].order].total_amount = SumOfLines(cur[c].items)
            /\ gtfReq'[c].amount = SumOfLines(cur[c].items)
            /\ gtfPc'[c] = "validate"]_vars

C17_Witness ==
  \E c \in Clients :
    /\ pc[c] = "co_wait" /\ Len(cur[c].items) = 2
    /\ LiveOrders = {cur[c].order}
    /\ orders[cur[c].order].total_amount = Whole(10)
    /\ gtfReq[c].amount = Whole(10)

\* ------------------------------------------ item normalization, SpecNames
\* C18: in the itemization create-payment sends, the name of an item is the
\* first 45 characters of the given name followed by "..." when the given name
\* is longer than 45 characters, the given name when it has 1 to 45
\* characters, and "Item k", k the item's 1-based position, when no name is
\* given.
C18_NamesNormalized ==
  \A k \in Callers :
    (gtfPayload[k].sent /\ HasItems(gtfReq[k]) /\ ~TotalMismatch(gtfReq[k])) =>
      LET given == gtfReq[k].itemDetails.items
          sent == gtfPayload[k].item_details
      IN /\ Len(sent) = Len(given)
         /\ \A i \in 1..Len(given) :
              /\ Len(given[i].name) > 45 =>
                   sent[i].name = SubSeq(given[i].name, 1, 45) \o <<Dot, Dot, Dot>>
              /\ Len(given[i].name) \in 1..45 => sent[i].name = given[i].name
              /\ given[i].name = <<>> => sent[i].name = <<ItemWord, i>>

C18_Witness ==
  \E k \in Callers :
    /\ gtfPayload[k].sent /\ Len(gtfPayload[k].item_details) = 2
    /\ Len(gtfReq[k].itemDetails.items[1].name) = 46
    /\ Len(gtfPayload[k].item_details[1].name) = 48
    /\ gtfReq[k].itemDetails.items[2].name = <<>>
    /\ gtfPayload[k].item_details[2].name = <<ItemWord, 2>>

\* --------------------------------------- missing configuration, SpecGtf
\* C19: a request that finds the gateway server key not configured ends in an
\* error response; the gateway is not called for it and no batch_orders row
\* is written.
C19_FailsClosedWithoutServerKey ==
  \A k \in Callers :
    gtfEnv[k].serverKey = "missing" =>
      /\ gtfPc[k] = "done"
      /\ gtfResp[k] = ErrorResp("Midtrans server key not configured")
      /\ gtfResp[k].status # 200 /\ gtfResp[k].snap_token = NoToken
      /\ ~gtfPayload[k].sent
      /\ batch_orders = <<>>

C19_Witness ==
  \E k \in Callers :
    /\ gtfEnv[k].serverKey = "missing" /\ HasBatch(gtfReq[k])
    /\ gtfPc[k] = "done" /\ gtfResp[k].status = 500

\* C20 as stated: a request with batch order ids that finds the store
\* connection not configured writes no batch_orders row, calls the gateway and
\* returns the token.
C20_MissingStoreConfigReturnsToken ==
  \A k \in Callers :
    (HasBatch(gtfReq[k]) /\ gtfEnv[k].store = "missing") =>
      /\ batch_orders = <<>>
      /\ gtfPc[k] \in {"fetch", "done"}
      /\ gtfPc[k] = "done" =>
           /\ gtfPayload[k].sent
           /\ gtfResp[k].status = 200 /\ gtfResp[k].snap_token # NoToken

\* C20: such a request writes no batch_orders row and goes on to call the
\* gateway; its response is the gateway's: the token when the gateway gave
\* one, else no token or the gateway's error, never an error of the store.
C20_MissingStoreConfigGoesOn ==
  \A k \in Callers :
    (HasBatch(gtfReq[k]) /\ gtfEnv[k].store = "missing") =>
      /\ batch_orders = <<>>
      /\ gtfPc[k] \in {"fetch", "done"}
      /\ gtfPc[k] = "done" =>
           /\ gtfPayload[k].sent
           /\ gtfPayload[k].order_id = gtfReq[k].orderId
           /\ \E outcome \in GatewayOutcomes :
                gtfResp[k] = GatewayResponse(outcome, gtfResp[k].snap_token)
           /\ gtfResp[k].error # "Database error"

C20_Witness ==
  \E k \in Callers :
    /\ HasBatch(gtfReq[k]) /\ gtfEnv[k].store = "missing"
    /\ gtfPc[k] = "done" /\ gtfPayload[k].sent /\ batch_orders = <<>>
    /\ gtfResp[k].status = 200 /\ gtfResp[k].snap_token # NoToken

\* ------------------------------------- concurrent batches, SpecBatchRace
\* The pair (snap_token, midtrans_order_id) of order o is the pair of the
\* batch of session c, which has written it.
PairOfBatch(o, c) ==
  /\ cur[c].op = "batch" /\ o \in cur[c].updated
  /\ cur[c].token # NoToken
  /\ orders[o].snap_token = cur[c].token
  /\ orders[o].midtrans_order_id = cur[c].orderId

\* C21: with two sessions paying batches over the same orders at once, an
\* order that carries a token carries the token and the batch id of one and
\* the same batch, an order without token has the id it had, and each update
\* of a batch leaves the order with that batch's pair (the last writer's).
C21_PairFromOneBatch ==
  /\ [](\A o \in LiveOrders :
          IF orders[o].snap_token # NoToken
            THEN \E c \in Clients : PairOfBatch(o, c)
            ELSE orders[o].midtrans_order_id \in {NoId, <<"ORDER", o>>})
  /\ [][\A c \in Clients :
         (ProcessBatchUpdate(c) /\ cur'[c].updated # cur[c].updated) =>
           LET o == cur[c].pending[cur[c].idx]
           IN /\ orders'[o].snap_token = cur[c].token
              /\ orders'[o].midtrans_order_id = cur[c].orderId]_vars

C21_Witness ==
  /\ \A c \in Clients : pc[c] = "done" /\ cur[c].token # NoToken
  /\ cur["c1"].token # cur["c2"].token
  /\ cur["c1"].orderId # cur["c2"].orderId
  /\ \E o \in cur["c1"].updated \cap cur["c2"].updated : PairOfBatch(o, "c1")
  /\ \E o \in cur["c1"].updated \cap cur["c2"].updated : PairOfBatch(o, "c2")


\* --------------------------------------- retry without a cached token
UncachedRetry(c) ==
  /\ cur[c].op = "retry"
  /\ \A g \in cur[c].given : g.snap_token = NoToken

\* create-payment is invoked only under the Midtrans id the order has in the
\* store: the one it had, or a new one written before; a failed write of the
\* new id ends the retry without a call.
RetryIdBeforeCall ==
  /\ [](\A c \in OneSession : \A g \in cur[c].given :
          (UncachedRetry(c) /\ cur[c].calls > 0) =>
            /\ cur[c].orderId # NoId
            /\ orders[g.id].midtrans_order_id = cur[c].orderId
            /\ g.midtrans_order_id # NoId => cur[c].orderId = g.midtrans_order_id
            /\ cur[c].calls = 1)
  /\ [][\A c \in OneSession :
         (RetrySetMidtransId(c) /\ orders' = orders) =>
           /\ pc'[c] = "done" /\ cur'[c].result = "error"
           /\ cur'[c].calls = 0 /\ gtfPc'[c] = "idle"
           /\ cur'[c].widget = NoToken]_vars

\* C22, as claimed: a retry without cached token calls create-payment only
\* once the order has its Midtrans id in the store (reused, or written
\* first; a failed write ends the retry without a call), and when the widget
\* is opened the order carries the returned token.
C22_RetryPersistsBeforeWidget ==
  /\ RetryIdBeforeCall
  /\ [](\A c \in OneSession :
          (UncachedRetry(c) /\ cur[c].widget # NoToken) =>
            orders[cur[c].order].snap_token = cur[c].widget)

\* C22, amended: the same for the Midtrans id; the update that saves the
\* returned token is requested before the widget is opened, and the widget is
\* opened with that token whether the update succeeded (the order carries the
\* token) or failed (the order is left without token).
C22_RetryRequestsSaveBeforeWidget ==
  /\ RetryIdBeforeCall
  /\ [](\A c \in OneSession :
          (UncachedRetry(c) /\ cur[c].widget # NoToken) =>
            /\ cur[c].widget = cur[c].token
            /\ cur[c].writes >= 1
            /\ orders[cur[c].order].snap_token \in {cur[c].token, NoToken})

C22_Witness ==
  \E c \in OneSession : \E g \in cur[c].given :
    /\ UncachedRetry(c) /\ g.midtrans_order_id = NoId
    /\ pc[c] = "done" /\ cur[c].widget # NoToken
    /\ orders[g.id].midtrans_order_id = cur[c].orderId
    /\ orders[g.id].snap_token = cur[c].token


\* ------------------------------------------ the workflow, SpecWorkflow
\* C23: whatever the parent, the cashier and the admin do, an orders row is
\* removed only by the rollback step of the checkout that inserted it, at a
\* moment when it has no line items; an order with line items stays.
C23_DeletedOnlyByRollback ==
  /\ [](\A o \in OrderIds : lineItems[o] # <<>> => orders[o].state = "live")
  /\ [][\A o \in OrderIds :
         (orders[o].state = "live" /\ orders'[o].state # "live") =>
           /\ lineItems[o] = <<>> /\ lineItems'[o] = <<>>
           /\ \E c \in OneSession :
                /\ CheckoutRollback(c)
                /\ cur[c].op = "checkout" /\ cur[c].order = o
                /\ cur'[c].deleted]_vars

C23_Witness ==
  \E c \in OneSession :
    /\ cur[c].op = "checkout" /\ cur[c].deleted
    /\ orders[cur[c].order].state = "deleted"
    /\ lineItems[cur[c].order] = <<>>


\* C24: the payment ledger only grows: every step leaves the rows of payments
\* and of cash_payments as they are and at most appends one row for the order
\* the cashier is settling; no step of the parent or of the admin touches it.
C24_LedgerAppendOnly ==
  [][/\ \/ payments' = payments
        \/ /\ Len(payments') = Len(payments) + 1
           /\ SubSeq(payments', 1, Len(payments)) = payments
           /\ \E k \in Cashiers :
                /\ payments'[Len(payments')].order_id = cashier[k].selected
                /\ cashier'[k] # cashier[k]
     /\ \/ cash_payments' = cash_payments
        \/ /\ Len(cash_payments') = Len(cash_payments) + 1
           /\ SubSeq(cash_payments', 1, Len(cash_payments)) = cash_payments
           /\ \E k \in Cashiers :
                /\ cash_payments'[Len(cash_payments')].order_id = cashier[k].selected
                /\ cashier'[k] # cashier[k]
     /\ (\E c \in OneSession : pc'[c] # pc[c] \/ gtfPc'[c] # gtfPc[c]) =>
          payments' = payments /\ cash_payments' = cash_payments]_vars

C24_Witness ==
  /\ payments # <<>> /\ cash_payments # <<>>
  /\ \E o \in LiveOrders : orders[o].status = "cancelled"
  /\ \E c \in OneSession : pc[c] = "done"


\* C25: an orders row comes into being with payment_status pending and
\* status pending, and no step of the parent, the cashier or the admin takes
\* an order that is paid to another payment_status.
C25_PaymentStatusMonotonic ==
  [][\A o \in OrderIds :
       /\ (orders[o].state = "none" /\ orders'[o].state = "live") =>
            orders'[o].payment_status = "pending" /\ orders'[o].status = "pending"
       /\ (orders[o].state = "live" /\ orders[o].payment_status = "paid"
             /\ orders'[o].state = "live") =>
            orders'[o].payment_status = "paid"]_vars

C25_Witness ==
  \E c \in OneSession :
    /\ cur[c].op = "checkout" /\ pc[c] = "done" /\ cur[c].token # NoToken
    /\ orders[cur[c].order].payment_status = "paid"
    /\ orders[cur[c].order].status = "pending"
    /\ \E i \in 1..Len(payments) : payments[i].order_id = cur[c].order


\* ------------------------------------- cash records and paid orders
\* C26, as claimed: in every state, a failed second write included, an order
\* is paid exactly when a cash payment record of it is in the store.
C26_PaidIffCashRecorded ==
  \A o \in LiveOrders :
    orders[o].payment_status = "paid" <=> CashRecorded(o)

\* C26, amended: a settlement that reports success leaves the order paid and
\* recorded; every payments row belongs to a paid order, since CashPaymentV2
\* and CashPayment set the order to paid before they insert the row (the
\* order stays paid without record when the insert fails); CashierPaymentV2
\* sets an order to paid only when its cash_payments row is in the store (the
\* row stays with a pending order when the update fails).
C26_PaidAndRecordedByWriteOrder ==
  /\ [](\A i \in 1..Len(payments) :
          orders[payments[i].order_id].state = "live" =>
            orders[payments[i].order_id].payment_status = "paid")
  /\ [](\A k \in Cashiers :
          (cashier[k].toast = "ok" /\ orders[cashier[k].selected].state = "live") =>
            /\ orders[cashier[k].selected].payment_status = "paid"
            /\ CashRecorded(cashier[k].selected))
  /\ [][\A o \in OrderIds :
         (orders[o].payment_status = "pending"
           /\ orders'[o].payment_status = "paid") =>
           \E k \in Cashiers :
             /\ cashier[k].selected = o
             /\ \/ /\ cashier[k].screen \in {"CashPaymentV2", "CashPayment"}
                   /\ cashier'[k].pc \in {"cp_insert", "hp_insert"}
                \/ /\ cashier[k].screen = "CashierPaymentV2"
                   /\ \E i \in 1..Len(cash_payments) :
                        cash_payments[i].order_id = o]_vars

C26_Witness ==
  \E k \in Cashiers :
    /\ cashier[k].toast = "error" /\ cashier[k].pc = "idle"
    /\ cashier[k].screen = "CashPaymentV2"
    /\ orders[cashier[k].selected].payment_status = "paid"
    /\ ~CashRecorded(cashier[k].selected)


\* --------------------------------------- two cashiers, SpecCashierRace
\* The cash payment records of order o, in both tables.
CashRecords(o) ==
  Cardinality({i \in 1..Len(payments) : payments[i].order_id = o})
    + Cardinality({i \in 1..Len(cash_payments) : cash_payments[i].order_id = o})

RetryCalls(c) ==
  /\ cur'[c].op = "retry"
  /\ gtfPc[c] = "idle" /\ gtfPc'[c] = "validate"

\* C28, as claimed: however retries of one order interleave, also when they
\* start from the same list loaded earlier, create-payment is called at most
\* once for the order: no retry calls it once a token is stored on the order.
C28_OneGatewayCallPerOrder ==
  [][\A c \in Clients :
       RetryCalls(c) => orders[cur'[c].order].snap_token = NoToken]_vars

\* C28, amended: a retry calls create-payment at most once, and only when the
\* order as held in the session's list has no token; with a token in the
\* list it makes no call.  The store's token is not read, so a retry from a
\* list loaded before the token was stored calls create-payment again.
C28_OneCallPerStaleRetry ==
  /\ [](\A c \in Clients : \A g \in cur[c].given :
          cur[c].op = "retry" =>
            /\ cur[c].calls <= 1
            /\ g.snap_token # NoToken => cur[c].calls = 0)
  /\ [][\A c \in Clients :
         RetryCalls(c) =>
           /\ cur'[c].calls = 1
           /\ \A g \in cur'[c].given : g.snap_token = NoToken]_vars

C28_Witness ==
  /\ \A c \in Clients :
       /\ cur[c].op = "retry" /\ pc[c] = "done"
       /\ cur[c].calls = 1 /\ cur[c].token # NoToken
  /\ cur["c1"].order = cur["c2"].order
  /\ cur["c1"].token # cur["c2"].token
  /\ orders[cur["c1"].order].snap_token = cur["c2"].token


CartKey(item) == <<item.menu_item_id, item.date, item.child_id>>

\* The quantity the cart holds for a key: 0 without an entry.
CartQuantity(items, key) ==
  LET found == {i \in 1..Len(items) : CartKey(items[i]) = key}
  IN IF found = {} THEN 0 ELSE items[CHOOSE i \in found : TRUE].quantity

CartKeys(items) == {CartKey(items[i]) : i \in 1..Len(items)}

\* C30: whatever is added and removed, the cart has at most one entry per
\* menu item, date and child, each with quantity 1 or more; adding a
\* combination the cart holds makes its quantity one more, removing an entry
\* makes it one less and drops the entry at quantity 1; other entries stay.
C30_CartKeyedAndCounted ==
  /\ [](\A i, j \in 1..Len(cartItems) :
          /\ cartItems[i].quantity >= 1
          /\ CartKey(cartItems[i]) = CartKey(cartItems[j]) => i = j)
  /\ [][\A key \in CartKeys(cartItems) \cup CartKeys(cartItems') :
         LET before == CartQuantity(cartItems, key)
             after == CartQuantity(cartItems', key)
         IN /\ after \in {before - 1, before, before + 1}
            /\ (after # before) =>
                 \A other \in (CartKeys(cartItems) \cup CartKeys(cartItems')) \ {key} :
                   CartQuantity(cartItems', other) = CartQuantity(cartItems, other)]_vars
  /\ [][\A i \in 1..Len(cartItems) :
         \A selectedDate \in SelectedDates, offset \in UtcOffsets,
            now \in Instants :
           (/\ DateString(selectedDate, offset) = cartItems[i].date
            /\ AddToCart(TRUE, ChildIds, cartItems[i].child_id,
                         cartItems[i].menu_item_id, selectedDate, offset, now)) =>
             /\ Len(cartItems') = Len(cartItems)
             /\ cartItems'[i].quantity = cartItems[i].quantity + 1]_vars
  /\ [][\A i \in 1..Len(cartItems) :
         RemoveFromCart(cartItems[i].id) =>
           /\ CartQuantity(cartItems', CartKey(cartItems[i])) =
                CartQuantity(cartItems, CartKey(cartItems[i])) - 1
           /\ cartItems[i].quantity = 1 =>
                CartKey(cartItems[i]) \notin CartKeys(cartItems')]_vars

C30_Witness ==
  /\ Len(cartItems) = MaxItems
  /\ \E i, j \in 1..Len(cartItems) :
       /\ cartItems[i].menu_item_id = cartItems[j].menu_item_id
       /\ cartItems[i].date = cartItems[j].date
       /\ cartItems[i].child_id # cartItems[j].child_id
       /\ cartItems[i].quantity = MaxQuantity
       /\ cartItems[j].quantity = 1
       /\ cartItems[i].id[4] = cartItems[j].id[4]

====
